---- MODULE Spec2Model ----
(***************************************************************************)
(* The store of src/redux/createStore.js as a state machine.               *)
(*                                                                         *)
(* dispatch() calls user code twice: the reducer (line 161) and each       *)
(* listener (line 170).  Both can call back into the store, so a dispatch  *)
(* in flight is a frame of `stack`, and the code of dispatch between two   *)
(* callbacks is one step.                                                  *)
(*                                                                         *)
(* The listener arrays are shared by reference (listeners =                *)
(* currentListeners = nextListeners) and compared by reference             *)
(* (nextListeners === currentListeners).  The model keeps the content of   *)
(* every array that can still be read, and which references are to the     *)
(* same array: `sameArray` for currentListeners and nextListeners, and     *)
(* `shared` in a frame whose local `listeners` is the array nextListeners  *)
(* refers to.  A write through nextListeners is a write to every           *)
(* reference to that array.  The array of currentListeners, when it is     *)
(* another array than nextListeners, is read only through the `listeners`  *)
(* locals of the frames: ensureCanMutateNextListeners reads it only when   *)
(* both are the same array, and dispatch overwrites the reference.         *)
(***************************************************************************)
EXTENDS Integers, Sequences, FiniteSets, Bags, TLC

\* ---------------------------------------------------------------- bounds
MaxCalls == 4          \* subscribe calls plus counted actions accepted in one run
MaxFuncs == 3          \* functions handed to one compose call
MaxStageCalls == 3     \* calls of one proxy of a selector stage
MaxTime == 5           \* the last value of the clock, in milliseconds
MaxReloads == 1        \* hot reloads of the connect call of one container

\* ------------------------------------------------------- values of the run
Undefined == -1        \* the value `undefined` of a state

ListenerFns == {"l1", "l2"}
NotAFunction == "notAFunction"

Reducers == {"count", "countByTwo"}

InitialReducer == "count"

PreloadedStates == {Undefined, 1}

InitAction == [plain |-> TRUE, type |-> "@@redux/INIT"]

\* what a caller can hand to dispatch: a plain record with a type, a plain
\* record without one, and a non-plain value that has a type (a class instance)
ActionValues ==
    { [plain |-> TRUE, type |-> "INC"],
      [plain |-> TRUE, type |-> "undefined"],
      [plain |-> FALSE, type |-> "INC"] }

isPlainObject(a) == a.plain

WellFormed(a) == isPlainObject(a) /\ a.type # "undefined"

VARIABLES
    created,            \* createStore: "constructing", "ready" once it has returned the
                        \* store, "failed" when it threw
    currentReducer,
    currentState,
    nextListeners,      \* the array nextListeners refers to: a sequence of entries,
                        \* each a listener function fn (and, as history, the
                        \* subscribe call `by` that pushed it)
    sameArray,          \* currentListeners === nextListeners
    isDispatching,
    subs,               \* one entry per subscribe call: its closure (listener, isSubscribed)
    stack,              \* dispatch calls in flight, innermost last
    thrown,             \* the error the last step ended a call with, or "none"
    lastReduced,        \* history: the value the last reducer call returned
    replaced            \* history: the replaceReducer calls made with a function

\* combineReducers (src/unnamed/part_004): the closure of the one combination
\* the run makes, and the objects its calls return
VARIABLES
    combined,           \* combineReducers was called
    givenReducers,      \* history: the argument of combineReducers, its
                        \* entries (key, fn) in key order
    finalReducers,      \* the reducers kept, in key order: entries (key, fn)
    shapeAssertionError,\* the error assertReducerShape threw, or "none"
    heap,               \* the state objects: heap[ref] maps each key to its
                        \* value (Undefined for a key the object does not have)
    lastCall            \* history: the last call of the combination: its
                        \* arguments, the keys whose reducers it invoked, in
                        \* order, and what it returned or threw

\* compose (src/redux/compose.js, src/unnamed/part_005)
VARIABLES
    funcs,              \* the arguments of the last compose call
    composed,           \* what compose returned for them: the function of the
                        \* reduce version and that of the reduceRight version
    args,               \* the arguments the composed functions were called with
    result              \* what the two calls returned and, as history, the
                        \* functions each called, in order

\* applyMiddleware (src/redux/applyMiddleware.js): the one enhancer the run
\* applies, and the calls of the dispatch functions it builds
VARIABLES
    middlewares,        \* the arguments of applyMiddleware
    phase,              \* "none" before the enhancer runs, "applied" from line 17
                        \* to line 27, "composed" once line 28 has assigned dispatch
    chain,              \* the local `chain`, as far as line 25 has mapped it
    dispatch,           \* the local `dispatch`: a dispatch function
    inSetup,            \* the call middleware(middlewareAPI) of line 25 is running
    chainStack,         \* the calls of dispatch functions in flight, innermost last
    outerCall           \* history: the last call of the enhanced store's dispatch

\* connect (src/react-redux/connect/mergeProps.js): the Connect instances of
\* a host tree, their Subscription nodes and the host tree that calls their
\* lifecycle hooks
VARIABLES
    inst,               \* the fields of each Connect instance
    node,               \* the Subscription each instance created
    pending,            \* host: the instances whose setState is not yet carried out
    hostStack,          \* the calls in flight below a store listener or a
                        \* host callback, innermost last
    hostError,          \* the error a call of a container method raised, or "none"
    log,                \* history: what the containers did since the last dispatch
                        \* call or, when it came later, the last render from above
    propsBefore         \* history: selector.props of each instance at that call

\* The stages of the selector of a container (connect/mergeProps.js lines
\* 1-50, src/unnamed/part_000): the proxy that one initMergePropsProxy call
\* returns, the proxy that one initProxySelector call returns, and the
\* warnings that their checks have recorded
VARIABLES
    mergeProxy,         \* the closure of mergePropsProxy: the options it was made
                        \* with, hasRunOnce, mergedProps
    mergeHistory,       \* history: the calls of mergePropsProxy made, what the
                        \* user function returned to the first and to the last of
                        \* them, and what the last of them found and returned
    proxy,              \* mapToPropsProxy: its fields mapToProps and
                        \* dependsOnOwnProps, and the user function it wraps
    proxyHistory,       \* history: the calls of the proxy made, the invocations of
                        \* user functions they made, and what the first and the
                        \* last of them returned
    warnings            \* the warnings recorded

mergeVars == <<mergeProxy, mergeHistory>>

proxyVars == <<proxy, proxyHistory>>

\* debounce (src/unnamed/part_001): the closure of the one debounced
\* function that the run makes
VARIABLES
    clock,              \* Date.now()
    debounced,          \* the closure: the options, lastArgs, lastCallTime,
                        \* lastInvokeTime, result, and timerId, the time at which
                        \* the pending timer is due
    debounceHistory     \* history: the calls since the last invocation of func
                        \* (0, 1, or 2 for more), the time of the first of
                        \* them, the last call, the last invocation, the last
                        \* call before it and the calls it ended

debounceVars == <<clock, debounced, debounceHistory>>

stageVars == <<mergeVars, proxyVars, warnings, debounceVars>>

closureVars == <<combined, givenReducers, finalReducers, shapeAssertionError>>

containerVars == <<inst, node, pending, hostStack, hostError, log, propsBefore>>

middlewareVars == <<middlewares, phase, chain, dispatch, inSetup, chainStack, outerCall>>

composeVars == <<funcs, composed, args, result>>

\* compose not called yet
ComposeIdle ==
    /\ funcs = <<>>
    /\ composed = <<>>
    /\ args = <<>>
    /\ result = <<>>

\* what no call of the store touches
outsideStore == <<closureVars, composeVars, middlewareVars, containerVars, stageVars>>

\* what combineReducers does not touch, the store apart
outsideCombine == <<composeVars, middlewareVars, containerVars, stageVars>>

\* what only a reducer call touches
reducerVars == <<heap, lastCall>>

vars == <<created, currentReducer, currentState, nextListeners, sameArray,
          isDispatching, subs, stack, thrown, lastReduced, replaced,
          outsideStore, reducerVars>>

\* ---------------------------------------------------------------- compose
\* A function value is a record: a named function handed to compose, or a
\* closure that compose built, with the functions it closes over.  The named
\* functions are those of the example in part_005: arg => arg + '----1'; a
\* value is the sequence of pieces the string is made of.
FuncNames == {"f1", "f2", "f3"}

Fn(name) == [kind |-> "fn", name |-> name]

Apply(name, x) == Append(x, name)

\* arg => arg
Identity == [kind |-> "identity"]

\* (a, b) => (...args) => b(a(...args)): the two calls in the other order
ReduceStepSwapped(a, b) == [kind |-> "reduce", a |-> b, b |-> a]

\* (a, b) => (...args) => a(b(...args))
ReduceStep(a, b) == [kind |-> "reduce", a |-> a, b |-> b]

\* funcs.reduce(step) without an initial value, from element i on
RECURSIVE ArrayReduce(_, _, _)
ArrayReduce(fs, i, a) ==
    IF i > Len(fs) THEN a ELSE ArrayReduce(fs, i + 1, ReduceStep(a, fs[i]))

\* compose of compose.js and of part_005, lines 33-49
compose(fs) ==
    IF Len(fs) = 0 THEN Identity
    ELSE IF Len(fs) = 1 THEN fs[1]
    ELSE ArrayReduce(fs, 2, fs[1])

\* compose of part_005, lines 11-23
composeReduceRight(fs) ==
    IF Len(fs) = 0 THEN Identity
    ELSE IF Len(fs) = 1 THEN fs[1]
    ELSE [kind |-> "reduceRight", last |-> fs[Len(fs)],
          rest |-> SubSeq(fs, 1, Len(fs) - 1)]

\* the call c(...as): the value returned and the named functions called, in
\* order
RECURSIVE Call(_, _)
RECURSIVE ReduceRight(_, _, _)
Call(c, as) ==
    CASE c.kind = "identity" -> [value |-> as[1], log |-> <<>>]
      [] c.kind = "fn" -> [value |-> Apply(c.name, as[1]), log |-> <<c.name>>]
      [] c.kind = "reduce" ->
            LET inner == Call(c.b, as)
                outer == Call(c.a, <<inner.value>>)
            IN  [value |-> outer.value, log |-> inner.log \o outer.log]
      [] c.kind = "reduceRight" -> ReduceRight(c.rest, Len(c.rest), Call(c.last, as))

\* rest.reduceRight((composed, f) => f(composed), initial), from element i down
ReduceRight(rest, i, acc) ==
    IF i = 0 THEN acc
    ELSE LET r == Call(rest[i], <<acc.value>>)
         IN  ReduceRight(rest, i - 1, [value |-> r.value, log |-> acc.log \o r.log])

\* ------------------------------------------------------------- user code
\* The reducers handed to combineReducers.  A slice is 0 or 1:
\*   flag         (state = 0, action) => action.type === 'SET' ? 1 : state
\*   keep         (state = 0, action) => state
\*   undefOnBad   returns undefined for the action BAD, else as keep
\*   noDefault    (state, action) => state
\*   privateInit  handles INIT itself and has no default for other actions
SubReducers == {"flag", "keep", "undefOnBad", "noDefault", "privateInit"}

SubReduce(fn, s, a) ==
    LET s0 == IF s = Undefined THEN 0 ELSE s
    IN  CASE fn = "flag" -> IF a.type = "SET" THEN 1 ELSE s0
          [] fn = "keep" -> s0
          [] fn = "undefOnBad" -> IF a.type = "BAD" THEN Undefined ELSE s0
          [] fn = "noDefault" -> s
          [] fn = "privateInit" -> IF a.type = InitAction.type THEN s0 ELSE s

Keys == {"a", "b", "x"}

\* {}
EmptyObject == [k \in Keys |-> Undefined]

\* '@@redux/PROBE_UNKNOWN_ACTION_' + a random string: a type no reducer knows
ProbeAction == [plain |-> TRUE, type |-> "@@redux/PROBE_UNKNOWN_ACTION"]

\* the first error thrown in the forEach of assertReducerShape, from key i on
RECURSIVE assertReducerShape(_, _)
assertReducerShape(fr, i) ==
    IF i > Len(fr) THEN "none"
    ELSE IF SubReduce(fr[i].fn, Undefined, InitAction) = Undefined
         THEN "UndefinedDuringInit"
    ELSE IF SubReduce(fr[i].fn, Undefined, ProbeAction) = Undefined
         THEN "UndefinedOnProbe"
    ELSE assertReducerShape(fr, i + 1)

\* the try block without its catch: the error leaves combineReducers
CombineRethrows(err) == err

\* try { assertReducerShape(finalReducers) } catch (e) { shapeAssertionError = e }
\* : what combineReducers throws
CombineThrows(err) == "none"

\* the check of the sub-reducer's result left out
NeverUndefined(v) == FALSE

\* typeof nextStateForKey === 'undefined'
ReturnedUndefined(v) == v = Undefined

\* hasChanged = nextStateForKey !== previousStateForKey
HasChangedLastKey(hasChanged, nextStateForKey, previousStateForKey) ==
    nextStateForKey # previousStateForKey

\* hasChanged = hasChanged || nextStateForKey !== previousStateForKey
HasChanged(hasChanged, nextStateForKey, previousStateForKey) ==
    hasChanged \/ nextStateForKey # previousStateForKey

\* the for loop of combination from key i on; acc holds hasChanged, nextState
\* and the keys invoked so far
RECURSIVE CombinationLoop(_, _, _, _, _)
CombinationLoop(fr, state, action, i, acc) ==
    IF i > Len(fr)
    THEN [threw |-> "none", hasChanged |-> acc.hasChanged,
          nextState |-> acc.nextState, invoked |-> acc.invoked]
    ELSE LET key == fr[i].key
             previousStateForKey == state[key]
             nextStateForKey == SubReduce(fr[i].fn, previousStateForKey, action)
             called == Append(acc.invoked, key)
         IN  IF ReturnedUndefined(nextStateForKey)
             THEN [threw |-> "UndefinedState", hasChanged |-> acc.hasChanged,
                   nextState |-> acc.nextState, invoked |-> called]
             ELSE CombinationLoop(fr, state, action, i + 1,
                      [hasChanged |-> HasChanged(acc.hasChanged, nextStateForKey,
                                                 previousStateForKey),
                       nextState |-> [acc.nextState EXCEPT ![key] = nextStateForKey],
                       invoked |-> called])

\* nextState starting as the input object
NextStateFromInput(state) == state

\* const nextState = {}
FreshNextState(state) == EmptyObject

\* combination(state = {}, action) on the objects h: what it throws, the
\* reference it returns and the objects there are then
combination(err, fr, h, state, action) ==
    IF err # "none"
    THEN [threw |-> err, ref |-> Undefined, heap |-> h, invoked |-> <<>>]
    ELSE LET defaulted == state = Undefined
             h0 == IF defaulted THEN Append(h, EmptyObject) ELSE h
             ref0 == IF defaulted THEN Len(h0) ELSE state
             r == CombinationLoop(fr, h0[ref0], action, 1,
                      [hasChanged |-> FALSE, nextState |-> FreshNextState(h0[ref0]),
                       invoked |-> <<>>])
         IN  IF r.threw # "none"
             THEN [threw |-> r.threw, ref |-> Undefined, heap |-> h,
                   invoked |-> r.invoked]
             ELSE IF r.hasChanged
             THEN [threw |-> "none", ref |-> Len(h0) + 1,
                   heap |-> Append(h0, r.nextState), invoked |-> r.invoked]
             ELSE [threw |-> "none", ref |-> ref0, heap |-> h0,
                   invoked |-> r.invoked]

\* the call currentReducer(currentState, action) when the reducer is the
\* combination
Combine(s, a) == combination(shapeAssertionError, finalReducers, heap, s, a)

\* The reducers the store is run with: a counter, a second one to swap in,
\* and the combination.  `state = 0` is the default parameter of the
\* counters: it applies when the state is undefined.
Reduce(r, s, a) ==
    IF r = "combination" THEN Combine(s, a).ref
    ELSE LET s0 == IF s = Undefined THEN 0 ELSE s
             step == IF r = "count" THEN 1 ELSE 2
         IN  IF a.type = "INC" THEN s0 + step ELSE s0

\* a counter can throw or return, as its caller's code decides; the
\* combination throws what its code throws
ReducerError(r, s, a) ==
    IF r = "combination" THEN Combine(s, a).threw ELSE "ReducerError"

MayThrow(r, s, a) == ReducerError(r, s, a) # "none"

MayReturn(r, s, a) == r = "combination" => Combine(s, a).threw = "none"

HeapAfter(r, s, a) == IF r = "combination" THEN Combine(s, a).heap ELSE heap

NoCall ==
    [state |-> Undefined, action |-> InitAction, invoked |-> <<>>,
     threw |-> "none", result |-> Undefined]

CallRecord(r, s, a) ==
    IF r = "combination"
    THEN [state |-> s, action |-> a, invoked |-> Combine(s, a).invoked,
          threw |-> Combine(s, a).threw, result |-> Combine(s, a).ref]
    ELSE lastCall

\* ------------------------------------------------------------ array helpers
Fns(s) == [k \in 1..Len(s) |-> s[k].fn]

\* Array.prototype.indexOf: 0-based position of the first occurrence, or -1
IndexOf(s, x) ==
    IF \E k \in 1..Len(s) : s[k] = x
    THEN (CHOOSE k \in 1..Len(s) : s[k] = x /\ \A j \in 1..(k - 1) : s[j] # x) - 1
    ELSE -1

\* slice(index, 1) written for splice(index, 1): nothing is removed
SpliceNothing(s, index) == s

\* Array.prototype.splice(index, 1): a negative index counts from the end
Splice1(s, index) ==
    LET at == IF index < 0
              THEN (IF Len(s) + index < 0 THEN 0 ELSE Len(s) + index)
              ELSE index
    IN  IF at >= Len(s) THEN s
        ELSE [k \in 1..(Len(s) - 1) |-> IF k <= at THEN s[k] ELSE s[k + 1]]

\* unshift written for push
PushFront(s, x) == <<x>> \o s

\* Array.prototype.push
Push(s, x) == Append(s, x)

Elems(s) == {s[k] : k \in 1..Len(s)}

Count(s, x) == Cardinality({k \in 1..Len(s) : s[k] = x})

\* ------------------------------------------------------------ the call stack
Top == stack[Len(stack)]

Pop(st) == SubSeq(st, 1, Len(st) - 1)

InReducer == stack # <<>> /\ Top.pc = "reduce"

InListener == stack # <<>> /\ Top.pc = "listener"

\* code that holds the store can call it: the code that created it, a
\* listener being notified, or a reducer being run
CanCall == created = "ready" /\ (stack = <<>> \/ InListener \/ InReducer)

Notifying(f) == f.pc = "listener"

\* ------------------------------------------------------------ createStore.js
getState == currentState

\* the copy left out: nextListeners is written in place
EnsureNeverCopies(same) == FALSE

\* if (nextListeners === currentListeners) nextListeners = currentListeners.slice()
\* : whether nextListeners becomes a new array
ensureCanMutateNextListeners(same) == same

\* the references to the array nextListeners referred to, after
\* ensureCanMutateNextListeners: with a new array, no frame shares it
Unshare(st, copied) ==
    [k \in 1..Len(st) |-> [st[k] EXCEPT !.shared = @ /\ ~copied]]

\* a write to the array of nextListeners, seen through every reference to it
WriteShared(st, arr) ==
    [k \in 1..Len(st) |-> IF st[k].shared THEN [st[k] EXCEPT !.listeners = arr] ELSE st[k]]

\* the check of action.type left out
DispatchErrorNoTypeCheck(a, dispatching) ==
    IF ~isPlainObject(a) THEN "ActionError"
    ELSE IF dispatching THEN "ReducersMayNotDispatch"
    ELSE "none"

\* the check of isDispatching left out
DispatchErrorNoReentryCheck(a, dispatching) ==
    IF ~isPlainObject(a) THEN "ActionError"
    ELSE IF a.type = "undefined" THEN "ActionError"
    ELSE "none"

\* isDispatching cleared only when dispatch returns: a dispatch in flight
\* counts as a reducer in progress
DispatchErrorWhileNotifying(a, dispatching) ==
    IF ~isPlainObject(a) THEN "ActionError"
    ELSE IF a.type = "undefined" THEN "ActionError"
    ELSE IF dispatching \/ stack # <<>> THEN "ReducersMayNotDispatch"
    ELSE "none"

\* the size of the run so far: the subscribe calls made, the value counted
\* and the reducers swapped in
Calls ==
    Len(subs) + (IF currentState = Undefined THEN 0 ELSE currentState) + replaced

\* the three guards at the head of dispatch, in their order
DispatchError(a, dispatching) ==
    IF ~isPlainObject(a) THEN "ActionError"
    ELSE IF a.type = "undefined" THEN "ActionError"
    ELSE IF dispatching THEN "ReducersMayNotDispatch"
    ELSE "none"

\* the reducer's result not stored
NextStateDropped(r, s, a) == s

\* currentState = currentReducer(currentState, action)
NextState(r, s, a) == Reduce(r, s, a)

\* isDispatching = false after the call instead of in a finally block
FinallyOnlyOnReturn(dispatching, threw) == IF threw THEN dispatching ELSE FALSE

\* finally { isDispatching = false }, on both ways out of the try block
Finally(dispatching, threw) == FALSE

\* the isSubscribed guard left out
NeverUnsubscribed(sub) == FALSE

\* if (!isSubscribed) return
AlreadyUnsubscribed(sub) == ~sub.isSubscribed

\* the frame of a dispatch call: its action, the reducer it calls, and after
\* the reducer has returned its local `listeners` and `i`.  History: snap,
\* the content of `listeners` when it was taken; calls, the entries called so
\* far; late, the subscribe calls made since snap was taken; fresh, no
\* subscribe or unsubscribe since snap was taken; quiet, none since dispatch
\* was called; result, the value its reducer returned.
NewFrame(a, r) ==
    [action |-> a, reducer |-> r, pc |-> "reduce", listeners |-> <<>>,
     shared |-> FALSE, i |-> 0, snap |-> <<>>, calls |-> <<>>, late |-> {},
     fresh |-> TRUE, quiet |-> TRUE, result |-> Undefined]

\* the loop written over nextListeners instead of the local listeners
IterateNextListeners(rest, f) ==
    IF f.i < Len(nextListeners)
    THEN Append(rest, [f EXCEPT !.pc = "listener",
                                !.calls = Append(@, nextListeners[f.i + 1])])
    ELSE rest

\* for (let i = 0; i < listeners.length; i++) listeners[i]() : run the loop of
\* frame f up to its next listener call, or to the return of dispatch
Iterate(rest, f) ==
    IF f.i < Len(f.listeners)
    THEN Append(rest, [f EXCEPT !.pc = "listener",
                                !.calls = Append(@, f.listeners[f.i + 1])])
    ELSE rest

\* dispatch(action) up to the call of the reducer
DispatchCall(a, r) ==
    IF DispatchError(a, isDispatching) # "none"
    THEN /\ thrown' = DispatchError(a, isDispatching)
         /\ UNCHANGED <<created, currentState, nextListeners, sameArray,
                        isDispatching, stack, lastReduced>>
    ELSE /\ (a.type = "INC" => Calls < MaxCalls)
         /\ isDispatching' = TRUE
         /\ stack' = Append(stack, NewFrame(a, r))
         /\ thrown' = "none"
         /\ UNCHANGED <<created, currentState, nextListeners, sameArray, lastReduced>>

\* dispatch({ type: ActionTypes.INIT }) at the end of createStore
CreateStore ==
    /\ created = "constructing" /\ stack = <<>>
    /\ DispatchCall(InitAction, currentReducer)
    /\ UNCHANGED <<currentReducer, subs, replaced, outsideStore, reducerVars>>

Dispatch(a) ==
    /\ CanCall
    /\ DispatchCall(a, currentReducer)
    /\ UNCHANGED <<currentReducer, subs, replaced, outsideStore, reducerVars>>

\* the reducer returns: the rest of dispatch up to the first listener call, or
\* to its return when there is no listener (createStore then returns the store)
ReducerReturns ==
    /\ InReducer
    /\ MayReturn(Top.reducer, currentState, Top.action)
    /\ heap' = HeapAfter(Top.reducer, currentState, Top.action)
    /\ lastCall' = CallRecord(Top.reducer, currentState, Top.action)
    /\ LET f == Top
           g == [f EXCEPT !.listeners = nextListeners, !.shared = TRUE,
                          !.snap = nextListeners, !.i = 0,
                          !.result = Reduce(f.reducer, currentState, f.action)]
       IN  /\ currentState' = NextState(f.reducer, currentState, f.action)
           /\ lastReduced' = Reduce(f.reducer, currentState, f.action)
           /\ isDispatching' = Finally(isDispatching, FALSE)
           /\ sameArray' = TRUE
           /\ stack' = Iterate(Pop(stack), g)
           /\ created' = IF created = "constructing" THEN "ready" ELSE created
    /\ thrown' = "none"
    /\ UNCHANGED <<currentReducer, nextListeners, subs, replaced, outsideStore>>

\* the reducer throws: the finally block, and the error leaves dispatch (and
\* createStore, when it is the INIT dispatch of the construction)
ReducerThrows ==
    /\ InReducer
    /\ MayThrow(Top.reducer, currentState, Top.action)
    /\ lastCall' = CallRecord(Top.reducer, currentState, Top.action)
    /\ isDispatching' = Finally(isDispatching, TRUE)
    /\ stack' = Pop(stack)
    /\ created' = IF created = "constructing" THEN "failed" ELSE created
    /\ thrown' = ReducerError(Top.reducer, currentState, Top.action)
    /\ UNCHANGED <<currentReducer, currentState, nextListeners, sameArray, subs,
                   lastReduced, replaced, outsideStore, heap>>

\* a listener returns: the loop goes on to the next listener or dispatch returns
ListenerReturnsCall ==
    /\ InListener
    /\ stack' = Iterate(Pop(stack), [Top EXCEPT !.i = @ + 1])
    /\ thrown' = "none"
    /\ UNCHANGED <<created, currentReducer, currentState, nextListeners, sameArray,
                   isDispatching, subs, lastReduced, replaced>>

\* a listener of the code that holds the store returns
ListenerReturns ==
    /\ ListenerReturnsCall
    /\ UNCHANGED <<outsideStore, reducerVars>>

\* a listener throws: nothing in dispatch catches it, the rest of the loop is
\* skipped and the error reaches the caller of dispatch
ListenerThrows ==
    /\ InListener
    /\ stack' = Pop(stack)
    /\ thrown' = "ListenerError"
    /\ UNCHANGED <<created, currentReducer, currentState, nextListeners, sameArray,
                   isDispatching, subs, lastReduced, replaced, outsideStore,
                   reducerVars>>

\* history kept in the frames of the dispatch calls in flight
NoteSubscribe(st, h) ==
    [k \in 1..Len(st) |->
        IF Notifying(st[k])
        THEN [st[k] EXCEPT !.quiet = FALSE, !.fresh = FALSE, !.late = @ \cup {h}]
        ELSE [st[k] EXCEPT !.quiet = FALSE]]

NoteUnsubscribe(st) ==
    [k \in 1..Len(st) |->
        IF Notifying(st[k])
        THEN [st[k] EXCEPT !.quiet = FALSE, !.fresh = FALSE]
        ELSE [st[k] EXCEPT !.quiet = FALSE]]

\* subscribe(listener), as far as the store goes
SubscribeCall(l) ==
    /\ CanCall
    /\ IF l = NotAFunction
       THEN /\ thrown' = "ExpectedListener"
            /\ UNCHANGED <<nextListeners, sameArray, subs, stack>>
       ELSE /\ Calls < MaxCalls
            /\ LET copied == ensureCanMutateNextListeners(sameArray)
                   arr == Push(nextListeners, [fn |-> l, by |-> Len(subs) + 1])
               IN  /\ sameArray' = (sameArray /\ ~copied)
                   /\ nextListeners' = arr
                   /\ stack' = NoteSubscribe(WriteShared(Unshare(stack, copied), arr), Len(subs) + 1)
            /\ subs' = Append(subs, [listener |-> l, isSubscribed |-> TRUE])
            /\ thrown' = "none"
    /\ UNCHANGED <<created, currentReducer, currentState, isDispatching, lastReduced,
                   replaced>>

\* subscribe(listener)
Subscribe(l) ==
    /\ SubscribeCall(l)
    /\ UNCHANGED <<outsideStore, reducerVars>>

\* the closure returned by the h-th subscribe call, as far as the store goes
UnsubscribeCall(h) ==
    /\ CanCall
    /\ h \in 1..Len(subs)
    /\ IF AlreadyUnsubscribed(subs[h])
       THEN UNCHANGED <<nextListeners, sameArray, subs, stack>>
       ELSE LET copied == ensureCanMutateNextListeners(sameArray)
                index == IndexOf(Fns(nextListeners), subs[h].listener)
                arr == Splice1(nextListeners, index)
            IN  /\ subs' = [subs EXCEPT ![h].isSubscribed = FALSE]
                /\ sameArray' = (sameArray /\ ~copied)
                /\ nextListeners' = arr
                /\ stack' = NoteUnsubscribe(WriteShared(Unshare(stack, copied), arr))
    /\ thrown' = "none"
    /\ UNCHANGED <<created, currentReducer, currentState, isDispatching, lastReduced,
                   replaced>>

\* the closure returned by the h-th subscribe call, then subscribe(l), called
\* one after the other by one caller
ResubscribeCall(h, l) ==
    /\ CanCall
    /\ h \in 1..Len(subs) /\ ~AlreadyUnsubscribed(subs[h])
    /\ LET copied == ensureCanMutateNextListeners(sameArray)
           index == IndexOf(Fns(nextListeners), subs[h].listener)
           removed == Splice1(nextListeners, index)
           arr == Push(removed, [fn |-> l, by |-> Len(subs) + 1])
       IN  /\ subs' = Append([subs EXCEPT ![h].isSubscribed = FALSE],
                             [listener |-> l, isSubscribed |-> TRUE])
           /\ sameArray' = (sameArray /\ ~copied)
           /\ nextListeners' = arr
           /\ stack' = NoteSubscribe(
                          WriteShared(
                             NoteUnsubscribe(WriteShared(Unshare(stack, copied), removed)),
                             arr),
                          Len(subs) + 1)
    /\ thrown' = "none"
    /\ UNCHANGED <<created, currentReducer, currentState, isDispatching, lastReduced,
                   replaced>>

\* the closure returned by the h-th subscribe call
Unsubscribe(h) ==
    /\ UnsubscribeCall(h)
    /\ UNCHANGED <<outsideStore, reducerVars>>

\* the assignment left out of replaceReducer
SwapReducerKept(cur, r) == cur

\* currentReducer = nextReducer
SwapReducer(cur, r) == r

\* replaceReducer(nextReducer)
ReplaceReducer(r) ==
    /\ CanCall
    /\ IF r = NotAFunction
       THEN /\ thrown' = "ExpectedReducer"
            /\ UNCHANGED <<created, currentReducer, currentState, nextListeners,
                           sameArray, isDispatching, stack, lastReduced, replaced>>
       ELSE /\ Calls < MaxCalls
            /\ replaced' = replaced + 1
            /\ currentReducer' = SwapReducer(currentReducer, r)
            /\ DispatchCall(InitAction, SwapReducer(currentReducer, r))
    /\ UNCHANGED <<subs, outsideStore, reducerVars>>

\* ------------------------------------------------------ applyMiddleware.js
\* The middlewares handed to applyMiddleware:
\*   pass   api => next => action => next(action)
\*   block  api => next => action => {}
\*   thunk  the middleware of src/redux-thunk/index.js
\*   eager  api => { api.dispatch({ type: 'INC' });
\*                   return next => action => next(action) }
MiddlewareKinds == {"pass", "block", "thunk", "eager"}

IncAction == [plain |-> TRUE, type |-> "INC"]

\* an action that is a function: dispatch => { dispatch({ type: 'INC' }) }
ThunkAction == [plain |-> FALSE, type |-> "undefined", thunk |-> TRUE]

\* typeof action === 'function'
IsFunction(a) == "thunk" \in DOMAIN a

\* A dispatch function is the sequence of the middlewares wrapped around
\* store.dispatch, the outermost last: what Apply builds when a function of
\* the chain is called with the dispatch function `next`.
StoreDispatch == <<>>

\* middleware(middlewareAPI) for the i-th middleware: next => action => ...
ChainEntry(ms, i) == Fn([at |-> i, mw |-> ms[i]])

\* compose over the chain in the opposite order
ComposeChainReversed(ch) ==
    Call(compose([i \in 1..Len(ch) |-> ch[Len(ch) + 1 - i]]), <<StoreDispatch>>).value

\* compose(...chain)(store.dispatch)
ComposeChain(ch) == Call(compose(ch), <<StoreDispatch>>).value

\* dispatch: store.dispatch in middlewareAPI, bound when the API is built
ApiDispatchBoundEarly(d) == StoreDispatch

\* dispatch: (action) => dispatch(action), with d the value of the variable
\* `dispatch` when the call is made
ApiDispatch(d) == d

\* the call fn(a) of a dispatch function.  via: who made it, "caller" for the
\* code that holds the enhanced store, "api" for middlewareAPI.dispatch,
\* "next" for a middleware's next; setup: made while line 25 runs; callee:
\* what the call has called in its turn.
ChainFrame(fn, a, via) ==
    [fn |-> fn, action |-> a, via |-> via, setup |-> inSetup, pc |-> "body",
     callee |-> "none"]

ChainTop == chainStack[Len(chainStack)]

\* the middleware whose action => ... function the dispatch function fn is
Middleware(fn) == fn[Len(fn)]

\* the `next` that function closes over
NextOf(fn) == SubSeq(fn, 1, Len(fn) - 1)

NoOuter == [made |-> FALSE, action |-> InitAction, before |-> Undefined, reached |-> FALSE]

MiddlewareIdle ==
    /\ middlewares = <<>>
    /\ phase = "none"
    /\ chain = <<>>
    /\ dispatch = StoreDispatch
    /\ inSetup = FALSE
    /\ chainStack = <<>>
    /\ outerCall = NoOuter

\* applyMiddleware(...ms)(createStore)(reducer, preloadedState), up to line 17
ApplyMiddleware(ms) ==
    /\ phase = "none" /\ created = "constructing"
    /\ middlewares' = ms
    /\ phase' = "applied"
    /\ UNCHANGED <<chain, dispatch, inSetup, chainStack, outerCall>>
    /\ UNCHANGED <<created, currentReducer, currentState, nextListeners, sameArray,
                   isDispatching, subs, stack, thrown, lastReduced, replaced,
                   reducerVars, closureVars, composeVars, containerVars, stageVars>>

\* line 17: createStore(reducer, preloadedState, enhancer)
CreateBaseStore ==
    /\ phase = "applied"
    /\ CreateStore

\* the top call calls fn(a) and waits for it
CallFrom(callee, fn, a, via) ==
    Append([chainStack EXCEPT ![Len(chainStack)].pc = "called",
                              ![Len(chainStack)].callee = callee],
           ChainFrame(fn, a, via))

\* line 25, one element of the map: middleware(middlewareAPI)
MapMiddleware ==
    /\ phase = "applied" /\ created = "ready" /\ stack = <<>>
    /\ ~inSetup /\ Len(chain) < Len(middlewares)
    /\ IF middlewares[Len(chain) + 1] = "eager"
       THEN /\ inSetup' = TRUE
            /\ chainStack' = <<[ChainFrame(ApiDispatch(dispatch), IncAction, "api")
                                  EXCEPT !.setup = TRUE]>>
            /\ chain' = chain
       ELSE /\ chain' = Append(chain, ChainEntry(middlewares, Len(chain) + 1))
            /\ UNCHANGED <<inSetup, chainStack>>
    /\ UNCHANGED <<middlewares, phase, dispatch, outerCall>>
    /\ UNCHANGED <<created, currentReducer, currentState, nextListeners, sameArray,
                   isDispatching, subs, stack, thrown, lastReduced, replaced,
                   reducerVars, closureVars, composeVars, containerVars, stageVars>>

\* the eager middleware returns its next => action => ... function
SetupReturns ==
    /\ inSetup /\ chainStack = <<>> /\ stack = <<>>
    /\ chain' = Append(chain, ChainEntry(middlewares, Len(chain) + 1))
    /\ inSetup' = FALSE
    /\ UNCHANGED <<middlewares, phase, dispatch, chainStack, outerCall>>
    /\ UNCHANGED <<created, currentReducer, currentState, nextListeners, sameArray,
                   isDispatching, subs, stack, thrown, lastReduced, replaced,
                   reducerVars, closureVars, composeVars, containerVars, stageVars>>

\* line 28: dispatch = compose(...chain)(store.dispatch), and the return of
\* the enhanced store
AssignDispatch ==
    /\ phase = "applied" /\ created = "ready" /\ stack = <<>>
    /\ ~inSetup /\ Len(chain) = Len(middlewares)
    /\ dispatch' = ComposeChain(chain)
    /\ phase' = "composed"
    /\ UNCHANGED <<middlewares, chain, inSetup, chainStack, outerCall>>
    /\ UNCHANGED <<created, currentReducer, currentState, nextListeners, sameArray,
                   isDispatching, subs, stack, thrown, lastReduced, replaced,
                   reducerVars, closureVars, composeVars, containerVars, stageVars>>

\* the code that holds the enhanced store calls its dispatch
EnhancedDispatch(a) ==
    /\ phase = "composed" /\ chainStack = <<>> /\ stack = <<>>
    /\ chainStack' = <<ChainFrame(dispatch, a, "caller")>>
    /\ outerCall' = [made |-> TRUE, action |-> a, before |-> currentState, reached |-> FALSE]
    /\ thrown' = "none"
    /\ UNCHANGED <<middlewares, phase, chain, dispatch, inSetup>>
    /\ UNCHANGED <<created, currentReducer, currentState, nextListeners, sameArray,
                   isDispatching, subs, stack, lastReduced, replaced,
                   reducerVars, closureVars, composeVars, containerVars, stageVars>>

\* replaceReducer dispatching through the dispatch of the enhanced store
ReplaceDispatchesEnhanced(d) == d

\* the dispatch that replaceReducer calls (createStore.js line 191): the
\* function dispatch of the createStore call that made it, whatever the
\* variable `dispatch` of applyMiddleware holds
ReplaceDispatches(d) == StoreDispatch

\* the code that holds the enhanced store calls its replaceReducer, which
\* `...store` (line 31) took from the base store
EnhancedReplaceReducer(r) ==
    /\ phase = "composed" /\ chainStack = <<>> /\ stack = <<>>
    /\ r # NotAFunction
    /\ IF ReplaceDispatches(dispatch) = StoreDispatch
       THEN ReplaceReducer(r)
       ELSE /\ Calls < MaxCalls
            /\ replaced' = replaced + 1
            /\ currentReducer' = SwapReducer(currentReducer, r)
            /\ chainStack' = <<ChainFrame(ReplaceDispatches(dispatch), InitAction, "replace")>>
            /\ thrown' = "none"
            /\ UNCHANGED <<middlewares, phase, chain, dispatch, inSetup, outerCall>>
            /\ UNCHANGED <<created, currentState, nextListeners, sameArray,
                           isDispatching, subs, stack, lastReduced,
                           reducerVars, closureVars, composeVars, containerVars,
                           stageVars>>

\* the body of a middleware's action => ... function, up to the call it makes
\* or to its return
MiddlewareRuns ==
    /\ chainStack # <<>> /\ ChainTop.pc = "body" /\ ChainTop.fn # StoreDispatch
    /\ LET f == ChainTop
           m == Middleware(f.fn)
       IN  IF m.mw = "block"
           THEN chainStack' = Pop(chainStack)
           ELSE IF m.mw = "thunk" /\ IsFunction(f.action)
           THEN chainStack' = CallFrom("api", ApiDispatch(dispatch), IncAction, "api")
           ELSE chainStack' = CallFrom("next", NextOf(f.fn), f.action, "next")
    /\ UNCHANGED <<middlewares, phase, chain, dispatch, inSetup, outerCall>>
    /\ UNCHANGED <<created, currentReducer, currentState, nextListeners, sameArray,
                   isDispatching, subs, stack, thrown, lastReduced, replaced,
                   reducerVars, closureVars, composeVars, containerVars, stageVars>>

\* a call reaches store.dispatch: an error it throws is caught by no
\* middleware and ends every call in flight
BaseDispatch ==
    /\ chainStack # <<>> /\ ChainTop.pc = "body" /\ ChainTop.fn = StoreDispatch
    /\ stack = <<>>
    /\ DispatchCall(ChainTop.action, currentReducer)
    /\ chainStack' =
          IF DispatchError(ChainTop.action, isDispatching) # "none" THEN <<>>
          ELSE [chainStack EXCEPT ![Len(chainStack)].pc = "called",
                                  ![Len(chainStack)].callee = "store"]
    /\ outerCall' = [outerCall EXCEPT !.reached = TRUE]
    /\ UNCHANGED <<middlewares, phase, chain, dispatch, inSetup>>
    /\ UNCHANGED <<currentReducer, subs, replaced, reducerVars, closureVars,
                   composeVars, containerVars, stageVars>>

\* the call the top call made has returned, and the top call returns
ChainReturn ==
    /\ chainStack # <<>> /\ ChainTop.pc = "called" /\ stack = <<>>
    /\ chainStack' = Pop(chainStack)
    /\ UNCHANGED <<middlewares, phase, chain, dispatch, inSetup, outerCall>>
    /\ UNCHANGED <<created, currentReducer, currentState, nextListeners, sameArray,
                   isDispatching, subs, stack, thrown, lastReduced, replaced,
                   reducerVars, closureVars, composeVars, containerVars, stageVars>>

\* ------------------------------------------------ connect/mergeProps.js
\* The host tree: the container P under the Provider, and the container C
\* that the component wrapped by P renders.  Each is mounted once.  Every
\* container handles state changes (shouldHandleStateChanges, the default).
ContainerNames == {"P", "C"}

HostParent(c) == IF c = "C" THEN "P" ELSE "none"

\* an action the counters do not know
NopAction == [plain |-> TRUE, type |-> "NOP"]

\* The source selectors: "all" derives its result from the state, "none"
\* returns the same result for every state.  They do not throw.
SelectorKinds == {"all", "none"}

\* sourceSelector(store.getState(), props)
Select(kind, s) == IF kind = "all" THEN s ELSE 0

\* Two more source selectors: "fragile" returns the same result for every
\* even state and throws an Error for every odd one, "own" derives its result
\* from the own props.
MoreSelectorKinds == {"fragile", "own"}

\* the call sourceSelector(state, props) throws
Throws(kind, s) == kind = "fragile" /\ s % 2 = 1

\* what the call sourceSelector(state, props) returns when it returns
SourceSelector(kind, s, own) == IF kind = "own" THEN 10 + own ELSE Select(kind, s)

\* the fields of a Connect instance: subscription and store say whether the
\* field holds an object, notifyNestedSubs and run which function the field
\* holds, componentDidUpdate whether the method is defined; props, error and
\* shouldComponentUpdate are the fields of this.selector, error saying
\* whether the field holds an Error; own is this.props.  History: rendered,
\* the selector.props that the last render passed on, and dirty, whether a
\* run since the last render found other props than the cached ones or
\* caught an error.  version is this.version, connect the version of the
\* connect call whose methods the instance runs (a hot reload replaces them)
\* and reloadKind the source selector that this call's selectorFactory makes.
NoInstance ==
    [life |-> "none", store |-> FALSE, propsMode |-> FALSE, subscription |-> FALSE,
     notifyNestedSubs |-> "noop", run |-> "noop", props |-> Undefined,
     shouldComponentUpdate |-> FALSE, componentDidUpdate |-> FALSE,
     kind |-> "none", unmounts |-> 0,
     error |-> FALSE, own |-> 0, rendered |-> Undefined, dirty |-> FALSE,
     version |-> 0, connect |-> 0, reloadKind |-> "none"]

\* The Subscription class (../utils/Subscription, imported at line 152): a
\* node has a parent node or none, is unsubscribed, then subscribed, then
\* inert, and keeps the list of the handlers that nested nodes attached.
\* A Subscription before trySubscribe.
\* The first `carried` listeners are those that a hot reload copied from the
\* node it replaced.
NoNode ==
    [state |-> "unsubscribed", at |-> "none", handle |-> 0, listeners |-> <<>>,
     carried |-> 0]

\* new Subscription(store, parentSub, onStateChange): an unsubscribed node
\* that knows where trySubscribe will attach its handler
NodeCreated(parentSub) ==
    [NoNode EXCEPT !.at = IF parentSub = "none" THEN "store" ELSE parentSub]

\* trySubscribe on a node made by NodeCreated: the nested listeners kept
NodeTrySubscribed(n, handle) ==
    IF n.state = "unsubscribed"
    THEN [n EXCEPT !.state = "subscribed", !.handle = handle]
    ELSE n

\* trySubscribe: the handler is attached at `at`, the store or a parent node;
\* handle is the unsubscribe function the store returned
NodeSubscribed(at, handle) ==
    [state |-> "subscribed", at |-> at, handle |-> handle, listeners |-> <<>>,
     carried |-> 0]

\* tryUnsubscribe: the child-listener list cleared, the node inert
NodeUnsubscribed ==
    [state |-> "terminal", at |-> "none", handle |-> 0, listeners |-> <<>>,
     carried |-> 0]

\* a descendant's subscribe call on node n
AddNested(n, c) == [n EXCEPT !.listeners = Append(@, c)]

\* a descendant detaches from node n: the unsubscribe function it holds
\* removes the handler that its own subscribe call on n registered, not a
\* handler copied from another node
RemoveNested(n, c) ==
    [n EXCEPT !.listeners =
        SubSeq(@, 1, n.carried)
        \o SelectSeq(SubSeq(@, n.carried + 1, Len(@)), LAMBDA x : x # c)]

ContainersIdle ==
    /\ inst = [c \in ContainerNames |-> NoInstance]
    /\ node = [c \in ContainerNames |-> NoNode]
    /\ pending = {}
    /\ hostStack = <<>>
    /\ hostError = "none"
    /\ log = <<>>
    /\ propsBefore = [c \in ContainerNames |-> Undefined]

\* a call in flight: "return" the store listener that the store called,
\* "handler" onStateChange (rest: who called it), "update" and "receive" the
\* host's update of an
\* instance (after setState, after new props), "didUpdate" the host's call of
\* componentDidUpdate, "notify" the loop of notifyNestedSubs over the
\* listeners `rest`, "unmount" componentWillUnmount
Item(kind, c, rest) == [kind |-> kind, c |-> c, rest |-> rest]

\* history: instance c did ev; live: it was mounted then
Event(ev, c) ==
    [ev |-> ev, c |-> c, live |-> inst[c].life = "mounted", from |-> "none",
     fromLive |-> TRUE]

\* history: onStateChange of instance c was called by `from`, the store or
\* the node of an instance; fromLive: that instance was mounted then
HandlerEvent(c, from) ==
    [Event("handler", c) EXCEPT
        !.from = from,
        !.fromLive = IF from \in ContainerNames THEN inst[from].life = "mounted" ELSE TRUE]

HostTop == hostStack[Len(hostStack)]

Running(kind) == hostStack # <<>> /\ HostTop.kind = kind

\* the top call goes on as the calls `items`, the last of them first
Continue(items) == Pop(hostStack) \o items

StoreUnchanged ==
    UNCHANGED <<created, currentReducer, currentState, nextListeners, sameArray,
                isDispatching, subs, stack, thrown, lastReduced, replaced>>

\* the host is between two calls of its own
HostIdle == created = "ready" /\ stack = <<>> /\ hostStack = <<>> /\ hostError = "none"

\* run with the test of selector.error left out of line 163
SelectorRunIgnoringError(i, s) ==
    IF i.run = "noop" THEN i
    ELSE IF Throws(i.kind, s)
    THEN [i EXCEPT !.shouldComponentUpdate = TRUE, !.error = TRUE, !.dirty = TRUE]
    ELSE LET nextProps == SourceSelector(i.kind, s, i.own)
         IN  IF nextProps # i.props
             THEN [i EXCEPT !.shouldComponentUpdate = TRUE, !.props = nextProps,
                            !.error = FALSE, !.dirty = TRUE]
             ELSE i

\* selector.run(props) of makeSelectorStateful, props being i.own
SelectorRun(i, s) ==
    IF i.run = "noop" THEN i
    ELSE IF Throws(i.kind, s)
    THEN [i EXCEPT !.shouldComponentUpdate = TRUE, !.error = TRUE, !.dirty = TRUE]
    ELSE LET nextProps == SourceSelector(i.kind, s, i.own)
         IN  IF nextProps # i.props \/ i.error
             THEN [i EXCEPT !.shouldComponentUpdate = TRUE, !.props = nextProps,
                            !.error = FALSE, !.dirty = TRUE]
             ELSE i

\* render with line 387 left out
RenderKeepsFlag(i) ==
    [i EXCEPT !.dirty = FALSE,
              !.rendered = IF i.error THEN @ ELSE i.props]

\* render, up to the throw or to createElement: the flag reset, and
\* selector.props passed on unless selector.error is thrown
Render(i) ==
    [i EXCEPT !.shouldComponentUpdate = FALSE,
              !.dirty = FALSE,
              !.rendered = IF i.error THEN @ ELSE i.props]

\* getChildContext with the propsMode test left out
PassesOwnSubscriptionInPropsMode(i) == i.subscription

\* getChildContext: this.propsMode ? null : this.subscription
PassesOwnSubscription(i) == IF i.propsMode THEN FALSE ELSE i.subscription

\* this.context[subscriptionKey] of instance c: what the nearest container
\* above it put in the child context, nothing under the Provider
RECURSIVE ContextSubscription(_)
ContextSubscription(c) ==
    IF HostParent(c) = "none" THEN "none"
    ELSE IF PassesOwnSubscription(inst[HostParent(c)]) THEN HostParent(c)
    ELSE ContextSubscription(HostParent(c))

\* this.props[subscriptionKey] of instance c: nothing, or the subscription
\* that a parent in props mode adds to the props of the component it wraps
PropsSubscriptions(c) ==
    {"none"} \cup
    {p \in ContainerNames : p = HostParent(c) /\ inst[p].propsMode /\ inst[p].subscription}

\* initSubscription: (this.propsMode ? this.props : this.context)[subscriptionKey]
ParentSub(c, mode, given) == IF mode THEN given ELSE ContextSubscription(c)

\* the constructor, the first render and componentDidMount of instance c
Mount(c, mode, given, kind) ==
    /\ HostIdle
    /\ inst[c].life = "none"
    /\ HostParent(c) # "none" => inst[HostParent(c)].life = "mounted"
    /\ given \in PropsSubscriptions(c)
    /\ inst' = [inst EXCEPT ![c] =
                  [life |-> "mounted", store |-> TRUE, propsMode |-> mode,
                   subscription |-> TRUE, notifyNestedSubs |-> "bound", run |-> "run",
                   props |-> Select(kind, currentState),
                   shouldComponentUpdate |-> FALSE, componentDidUpdate |-> FALSE,
                   kind |-> kind, unmounts |-> 0,
                   error |-> FALSE, own |-> 0,
                   rendered |-> Select(kind, currentState), dirty |-> FALSE,
                   version |-> 0, connect |-> 0, reloadKind |-> kind]]
    /\ IF ParentSub(c, mode, given) = "none"
       THEN /\ SubscribeCall(c)
            /\ node' = [node EXCEPT ![c] = NodeSubscribed("store", Len(subs) + 1)]
       ELSE /\ node' = [node EXCEPT
                          ![c] = NodeSubscribed(ParentSub(c, mode, given), 0),
                          ![ParentSub(c, mode, given)] = AddNested(@, c)]
            /\ StoreUnchanged
    /\ UNCHANGED <<pending, hostStack, hostError, log, propsBefore>>
    /\ UNCHANGED <<reducerVars, closureVars, composeVars, middlewareVars,
                   stageVars>>

\* initSubscription with trySubscribe called at once
InitSubscriptionSubscribes(c, mode, given) ==
    NodeTrySubscribed(NodeCreated(ParentSub(c, mode, given)), 0)

\* initSubscription: the node of instance c, not yet subscribed
InitSubscription(c, mode, given) == NodeCreated(ParentSub(c, mode, given))

\* The constructor of instance c (initSelector, initSubscription) and its
\* first render.  The host has not mounted the instance yet; when it renders
\* on a server it never will.
Construct(c, mode, given, kind) ==
    /\ HostIdle
    /\ inst[c].life = "none"
    /\ HostParent(c) # "none" => inst[HostParent(c)].life \in {"constructed", "mounted"}
    /\ given \in PropsSubscriptions(c)
    /\ LET i == SelectorRun([NoInstance EXCEPT
                                !.life = "constructed", !.store = TRUE,
                                !.propsMode = mode, !.subscription = TRUE,
                                !.notifyNestedSubs = "bound", !.run = "run",
                                !.kind = kind, !.reloadKind = kind],
                            currentState)
       IN  /\ inst' = [inst EXCEPT ![c] = Render(i)]
           /\ hostError' = IF i.error THEN "SelectorError" ELSE hostError
    /\ node' = [node EXCEPT ![c] = InitSubscription(c, mode, given)]
    /\ log' = log \o <<Event("run", c), Event("render", c)>>
    /\ StoreUnchanged
    /\ UNCHANGED <<pending, hostStack, propsBefore>>
    /\ UNCHANGED <<reducerVars, closureVars, composeVars, middlewareVars,
                   stageVars>>

\* componentDidMount with the run of line 292 left out
MountRunSkipped(i, s) == i

\* componentDidMount, line 292: this.selector.run(this.props)
MountRun(i, s) == SelectorRun(i, s)

\* componentDidMount of instance c, called once the containers that c
\* renders are mounted: trySubscribe, run, and forceUpdate when the run
\* flagged a change
ComponentDidMount(c) ==
    /\ HostIdle
    /\ inst[c].life = "constructed"
    /\ \A k \in ContainerNames : HostParent(k) = c => inst[k].life # "constructed"
    /\ LET n == node[c]
           i == MountRun([inst[c] EXCEPT !.life = "mounted"], currentState)
       IN  /\ IF n.at = "store"
              THEN /\ SubscribeCall(c)
                   /\ node' = [node EXCEPT ![c] = NodeTrySubscribed(n, Len(subs) + 1)]
              ELSE /\ node' = [node EXCEPT ![c] = NodeTrySubscribed(n, 0),
                                           ![n.at] = AddNested(@, c)]
                   /\ StoreUnchanged
           /\ inst' = [inst EXCEPT ![c] = i]
           /\ hostStack' = IF i.shouldComponentUpdate
                           THEN <<Item("force", c, <<>>)>>
                           ELSE <<>>
    /\ log' = log \o <<Event("run", c)>>
    /\ UNCHANGED <<pending, hostError, propsBefore>>
    /\ UNCHANGED <<reducerVars, closureVars, composeVars, middlewareVars,
                   stageVars>>

\* the host has mounted every instance it constructed
HostSettled == \A c \in ContainerNames : inst[c].life # "constructed"

\* the code above the containers renders P again, with the own props `own`
HostRerenders(own) ==
    /\ HostIdle
    /\ inst["P"].life = "mounted"
    /\ hostStack' = <<Item("receive", "P", <<own>>)>>
    /\ log' = <<>>
    /\ propsBefore' = [c \in ContainerNames |-> inst[c].props]
    /\ StoreUnchanged
    /\ UNCHANGED <<inst, node, pending, hostError>>
    /\ UNCHANGED <<reducerVars, closureVars, composeVars, middlewareVars,
                   stageVars>>

\* store.dispatch(action), called by code outside the containers
ConnectDispatch(a) ==
    /\ HostIdle
    /\ DispatchCall(a, currentReducer)
    /\ log' = <<>>
    /\ propsBefore' = [c \in ContainerNames |-> inst[c].props]
    /\ UNCHANGED <<currentReducer, subs, replaced>>
    /\ UNCHANGED <<inst, node, pending, hostStack, hostError>>
    /\ UNCHANGED <<reducerVars, closureVars, composeVars, middlewareVars,
                   stageVars>>

\* the listener that the loop of dispatch is calling
CurrentListener == Top.listeners[Top.i + 1].fn

\* the calls of componentWillUnmount when the host unmounts instance c: that
\* of c, then those of the containers below it
RECURSIVE UnmountItems(_)
UnmountItems(c) ==
    LET below == {k \in ContainerNames : HostParent(k) = c /\ inst[k].life = "mounted"}
    IN  (IF below = {} THEN <<>> ELSE UnmountItems(CHOOSE k \in below : TRUE))
        \o <<Item("unmount", c, <<>>)>>

\* the loop of dispatch calls a listener: the onStateChange of a container
StoreCallsListener ==
    /\ InListener /\ hostStack = <<>> /\ hostError = "none"
    /\ CurrentListener \in ContainerNames
    /\ hostStack' = <<Item("return", CurrentListener, <<>>),
                      Item("handler", CurrentListener, <<"store">>)>>
    /\ StoreUnchanged
    /\ UNCHANGED <<inst, node, pending, hostError, log, propsBefore>>
    /\ UNCHANGED <<reducerVars, closureVars, composeVars, middlewareVars,
                   stageVars>>

\* the loop of dispatch calls a listener of the code outside the containers:
\* it returns at once, or it first makes the host unmount the tree
StoreCallsOutsideListener ==
    /\ InListener /\ hostStack = <<>> /\ hostError = "none"
    /\ CurrentListener \notin ContainerNames
    /\ \/ hostStack' = <<Item("return", CurrentListener, <<>>)>>
       \/ /\ inst["P"].life = "mounted"
          /\ hostStack' = <<Item("return", CurrentListener, <<>>)>> \o UnmountItems("P")
    /\ StoreUnchanged
    /\ UNCHANGED <<inst, node, pending, hostError, log, propsBefore>>
    /\ UNCHANGED <<reducerVars, closureVars, composeVars, middlewareVars,
                   stageVars>>

\* the code outside the containers subscribes a listener of its own
OutsideSubscribes(l) ==
    /\ HostIdle
    /\ \A h \in 1..Len(subs) : subs[h].listener # l
    /\ Subscribe(l)

\* onStateChange notifying the nested subscribers whatever the selector says
NotifyNowAlways(i) == TRUE

\* if (!this.selector.shouldComponentUpdate)
NotifyNow(i) == ~i.shouldComponentUpdate

\* this.notifyNestedSubs(): the loop it starts over the listeners of the node
NotifyItems(c) ==
    IF inst[c].notifyNestedSubs = "bound"
    THEN <<Item("notify", c, node[c].listeners)>>
    ELSE <<>>

\* onStateChange, up to the return of setState when the host defers the
\* update, to the start of the update when it does not
OnStateChange ==
    /\ Running("handler")
    /\ LET c == HostTop.c
           i == SelectorRun(inst[c], currentState)
           ran == IF inst[c].run = "run" THEN <<Event("run", c)>> ELSE <<>>
       IN  IF NotifyNow(i)
           THEN /\ inst' = [inst EXCEPT ![c] = i]
                /\ hostStack' = Continue(NotifyItems(c))
                /\ log' = log \o <<HandlerEvent(c, HostTop.rest[1])>> \o ran
                /\ pending' = pending
           ELSE /\ inst' = [inst EXCEPT ![c] = [i EXCEPT !.componentDidUpdate = TRUE]]
                /\ log' = log \o <<HandlerEvent(c, HostTop.rest[1])>> \o ran
                                \o <<Event("setState", c)>>
                /\ \E sync \in BOOLEAN :
                      IF sync
                      THEN /\ hostStack' = Continue(<<Item("update", c, <<>>)>>)
                           /\ pending' = pending
                      ELSE /\ hostStack' = Continue(<<>>)
                           /\ pending' = pending \cup {c}
    /\ StoreUnchanged
    /\ UNCHANGED <<node, hostError, propsBefore>>
    /\ UNCHANGED <<reducerVars, closureVars, composeVars, middlewareVars,
                   stageVars>>

\* the mounted containers that the component wrapped by c renders
Children(c) == {k \in ContainerNames : HostParent(k) = c /\ inst[k].life = "mounted"}

\* componentWillUpdate: if (this.version !== version)
HotReloading(i) == i.version # i.connect

\* componentWillUpdate, lines 407-408: this.version = version and
\* initSelector, which makes a new selector and runs it with this.props
InitSelector(i, s) ==
    SelectorRun([i EXCEPT !.version = i.connect, !.kind = i.reloadKind,
                          !.props = Undefined, !.error = FALSE,
                          !.shouldComponentUpdate = FALSE, !.run = "run"],
                s)

\* componentWillUpdate with line 424 left out
CarriedOverNone(oldListeners) == <<>>

\* componentWillUpdate, line 424: the listeners of the old node, each
\* subscribed to the listeners of the new one
CarriedOver(oldListeners) == oldListeners

\* componentWillUpdate, lines 415-425, of a mounted instance c: the node
\* unsubscribed, a new node made for the same parent and subscribed, and the
\* listeners of the old node copied to it
Resubscription(c) ==
    LET n == node[c]
        oldListeners == n.listeners
        parentSub == IF n.at = "store" THEN "none" ELSE n.at
        made(handle) ==
            [NodeTrySubscribed(NodeCreated(parentSub), handle) EXCEPT
                !.listeners = CarriedOver(oldListeners),
                !.carried = Len(CarriedOver(oldListeners))]
    IN  IF n.at = "store"
        THEN /\ ResubscribeCall(n.handle, c)
             /\ node' = [node EXCEPT ![c] = made(Len(subs) + 1)]
        ELSE /\ StoreUnchanged
             /\ node' = [node EXCEPT ![c] = made(0),
                                     ![n.at] = AddNested(RemoveNested(@, c), c)]

\* The host updates an instance: componentWillReceiveProps when the update
\* comes from the parent (with the own props in `rest` when the parent hands
\* it other props than before), shouldComponentUpdate unless the update was
\* forced, componentWillUpdate (which rebuilds the selector and the
\* subscription after a hot reload, before the host assigns the new props),
\* render, then the children, each kept (and updated with its new
\* props) or unmounted as the render of the wrapped component decides, then
\* componentDidUpdate.  An error that render throws ends the work of the host.
HostUpdates ==
    /\ Running("update") \/ Running("receive") \/ Running("force")
    /\ LET c == HostTop.c
           nextProps == IF HostTop.rest = <<>> THEN inst[c].own ELSE HostTop.rest[1]
           i == IF HostTop.kind = "receive"
                THEN [SelectorRun([inst[c] EXCEPT !.own = nextProps], currentState)
                         EXCEPT !.own = IF inst[c].life = "mounted" THEN nextProps ELSE @]
                ELSE inst[c]
           ran == IF HostTop.kind = "receive" /\ inst[c].run = "run"
                  THEN <<Event("run", c)>> ELSE <<>>
           skips == i.life # "mounted"
                       \/ (HostTop.kind # "force" /\ ~i.shouldComponentUpdate)
           reloads == ~skips /\ HotReloading(i)
           u == IF reloads
                THEN [InitSelector([i EXCEPT !.own = inst[c].own], currentState)
                         EXCEPT !.own = i.own]
                ELSE i
           reran == IF reloads THEN <<Event("run", c)>> ELSE <<>>
       IN  /\ pending' = pending \ {c}
           /\ IF reloads
              THEN Resubscription(c)
              ELSE StoreUnchanged /\ node' = node
           /\ IF skips
              THEN /\ inst' = [inst EXCEPT ![c] = i]
                   /\ log' = log \o ran
                   /\ hostStack' = Continue(<<>>)
                   /\ hostError' = hostError
              ELSE /\ inst' = [inst EXCEPT ![c] = Render(u)]
                   /\ log' = log \o ran \o reran \o <<Event("render", c)>>
                   /\ hostError' = IF u.error THEN "SelectorError" ELSE hostError
                   /\ IF u.error
                      THEN hostStack' = <<>>
                      ELSE IF Children(c) = {}
                      THEN hostStack' = Continue(<<Item("didUpdate", c, <<>>)>>)
                      ELSE \E k \in Children(c), keep \in BOOLEAN :
                              hostStack' =
                                 Continue(<<Item("didUpdate", c, <<>>),
                                            Item(IF keep THEN "receive" ELSE "unmount",
                                                 k, <<>>)>>)
    /\ UNCHANGED propsBefore
    /\ UNCHANGED <<reducerVars, closureVars, composeVars, middlewareVars,
                   stageVars>>

\* the hook leaving itself installed
HookStaysInstalled(i) == i

\* notifyNestedSubsOnComponentDidUpdate: this.componentDidUpdate = undefined
HookUninstalled(i) == [i EXCEPT !.componentDidUpdate = FALSE]

\* the host calls componentDidUpdate when the instance defines it:
\* notifyNestedSubsOnComponentDidUpdate
ComponentDidUpdate ==
    /\ Running("didUpdate")
    /\ LET c == HostTop.c
       IN  IF inst[c].componentDidUpdate
           THEN /\ inst' = [inst EXCEPT ![c] = HookUninstalled(@)]
                /\ log' = log \o <<Event("didUpdate", c)>>
                /\ hostStack' = Continue(NotifyItems(c))
           ELSE /\ hostStack' = Continue(<<>>)
                /\ UNCHANGED <<inst, log>>
    /\ StoreUnchanged
    /\ UNCHANGED <<node, pending, hostError, propsBefore>>
    /\ UNCHANGED <<reducerVars, closureVars, composeVars, middlewareVars,
                   stageVars>>

\* the loop of a node over its nested listeners, up to the next call
NotifyNestedSubs ==
    /\ Running("notify")
    /\ hostStack' =
          IF HostTop.rest = <<>> THEN Continue(<<>>)
          ELSE Continue(<<Item("notify", HostTop.c, Tail(HostTop.rest)),
                          Item("handler", Head(HostTop.rest), <<HostTop.c>>)>>)
    /\ StoreUnchanged
    /\ UNCHANGED <<inst, node, pending, hostError, log, propsBefore>>
    /\ UNCHANGED <<reducerVars, closureVars, composeVars, middlewareVars,
                   stageVars>>

\* if (this.subscription)
HasSubscription(i) == i.subscription

\* componentWillUnmount leaving selector.run as it is
RunAfterUnmountKept(run) == run

\* this.selector.run = noop
RunAfterUnmount(run) == "noop"

\* componentWillUnmount; a method called on the null this.subscription is a
\* TypeError
ComponentWillUnmount ==
    /\ Running("unmount")
    /\ LET c == HostTop.c
           i == inst[c]
           n == node[c]
           fails == HasSubscription(i) /\ ~i.subscription
           detaches == HasSubscription(i) /\ i.subscription /\ n.state = "subscribed"
       IN  /\ hostError' = IF fails THEN "TypeError" ELSE hostError
           /\ IF detaches /\ n.at = "store"
              THEN UnsubscribeCall(n.handle)
              ELSE StoreUnchanged
           /\ node' = IF ~detaches THEN node
                      ELSE IF n.at = "store" THEN [node EXCEPT ![c] = NodeUnsubscribed]
                      ELSE [node EXCEPT ![c] = NodeUnsubscribed,
                                        ![n.at] = RemoveNested(@, c)]
           /\ inst' = IF fails THEN inst
                      ELSE [inst EXCEPT ![c] =
                              [i EXCEPT !.subscription = FALSE,
                                        !.notifyNestedSubs = "noop",
                                        !.store = FALSE,
                                        !.run = RunAfterUnmount(i.run),
                                        !.shouldComponentUpdate = FALSE,
                                        !.life = "unmounted",
                                        !.unmounts = @ + 1]]
           /\ pending' = pending \ {c}
    /\ hostStack' = Continue(<<>>)
    /\ UNCHANGED <<log, propsBefore>>
    /\ UNCHANGED <<reducerVars, closureVars, composeVars, middlewareVars,
                   stageVars>>

\* onStateChange has returned to the loop of dispatch
HandlerReturns ==
    /\ Running("return")
    /\ ListenerReturnsCall
    /\ hostStack' = Continue(<<>>)
    /\ UNCHANGED <<inst, node, pending, hostError, log, propsBefore>>
    /\ UNCHANGED <<reducerVars, closureVars, composeVars, middlewareVars,
                   stageVars>>

\* A hot reload replaces the connect call of the mounted instance c: the
\* methods that c runs from now on close over a later version and over a
\* selectorFactory that makes the source selector `kind`.  The tool that
\* reloads may force an update of c at once.
HotReload(c, kind, forces) ==
    /\ HostIdle
    /\ inst[c].life = "mounted"
    /\ inst[c].connect < MaxReloads
    /\ \A k \in ContainerNames \ {c} : ~HotReloading(inst[k])
    /\ inst' = [inst EXCEPT ![c].connect = @ + 1, ![c].reloadKind = kind]
    /\ hostStack' = IF forces THEN <<Item("force", c, <<>>)>> ELSE <<>>
    /\ log' = <<>>
    /\ propsBefore' = [k \in ContainerNames |-> inst[k].props]
    /\ StoreUnchanged
    /\ UNCHANGED <<node, pending, hostError>>
    /\ UNCHANGED <<reducerVars, closureVars, composeVars, middlewareVars,
                   stageVars>>

\* the host carries out an update it deferred
HostFlush(c) ==
    /\ HostIdle
    /\ c \in pending
    /\ hostStack' = <<Item("update", c, <<>>)>>
    /\ StoreUnchanged
    /\ UNCHANGED <<inst, node, pending, hostError, log, propsBefore>>
    /\ UNCHANGED <<reducerVars, closureVars, composeVars, middlewareVars,
                   stageVars>>

\* the host unmounts instance c
HostUnmounts(c) ==
    /\ HostIdle
    /\ inst[c].life = "mounted"
    /\ hostStack' = UnmountItems(c)
    /\ StoreUnchanged
    /\ UNCHANGED <<inst, node, pending, hostError, log, propsBefore>>
    /\ UNCHANGED <<reducerVars, closureVars, composeVars, middlewareVars,
                   stageVars>>

\* componentWillUnmount called once more on an unmounted instance
UnmountsAgain(c) ==
    /\ HostIdle
    /\ inst[c].life = "unmounted" /\ inst[c].unmounts < 2
    /\ hostStack' = <<Item("unmount", c, <<>>)>>
    /\ StoreUnchanged
    /\ UNCHANGED <<inst, node, pending, hostError, log, propsBefore>>
    /\ UNCHANGED <<reducerVars, closureVars, composeVars, middlewareVars,
                   stageVars>>

\* ------------------------------------- connect/mergeProps.js, lines 1-50
\* An object that a user function returns: ref tells one object from
\* another, content is what its own keys hold, plain whether it is a plain
\* object.  Objects are not mutated.
NoObject == [ref |-> 0, content |-> Undefined, plain |-> FALSE]

Contents == {0, 1}

\* the object that the call number n of a user function creates
FreshObjects(n) == {[ref |-> n, content |-> v, plain |-> b] : v \in Contents, b \in BOOLEAN}

\* areMergedPropsEqual(a, b), shallowEqual unless the options name another
\* function: the same object, or the same own keys holding the same values
areMergedPropsEqual(a, b) == a.ref = b.ref \/ a.content = b.content

\* verifyPlainObject(value, displayName, methodName) (../utils/verifyPlainObject):
\* the warnings recorded after the check, w being those recorded before
verifyPlainObject(value, w) == IF value.plain THEN w ELSE w + 1

\* process.env.NODE_ENV !== 'production'
Verifies(options) == ~options.production

\* no initMergePropsProxy call yet
NoMergeProxy ==
    [made |-> FALSE, pure |-> TRUE, production |-> FALSE,
     hasRunOnce |-> FALSE, mergedProps |-> NoObject]

NoMergeHistory ==
    [calls |-> 0, first |-> NoObject, next |-> NoObject, previous |-> NoObject,
     ranBefore |-> FALSE, returned |-> NoObject]

\* ---------------------------------------------------- src/unnamed/part_000
\* A value that a user function returns: an object, plain or not, or a
\* function (fnc), which has a number of declared parameters (length) and a
\* dependsOnOwnProps property: "unset" (undefined or null), or a value that
\* Boolean() turns into true or into false.
Lengths == {0, 1, 2}

Flags == {"unset", "true", "false"}

NoValue == [fnc |-> FALSE, plain |-> FALSE, length |-> 0, flag |-> "none"]

ObjectValues == {[fnc |-> FALSE, plain |-> b, length |-> 0, flag |-> "unset"] : b \in BOOLEAN}

FunctionValues ==
    {[fnc |-> TRUE, plain |-> FALSE, length |-> n, flag |-> f] : n \in Lengths, f \in Flags}

\* what a user function returns when the proxy does not inspect the value:
\* an object, or some function
OpaqueValues ==
    ObjectValues \cup {[fnc |-> TRUE, plain |-> FALSE, length |-> 0, flag |-> "unset"]}

\* getDependsOnOwnProps reading the arity only
getDependsOnOwnPropsByArity(mapToProps) == mapToProps.length # 1

\* getDependsOnOwnProps(mapToProps)
getDependsOnOwnProps(mapToProps) ==
    IF mapToProps.flag # "unset"
    THEN mapToProps.flag = "true"
    ELSE mapToProps.length # 1

\* no initProxySelector call yet; mapToProps: "detect" is
\* detectFactoryAndVerify, "raw" the function handed to wrapMapToPropsFunc,
\* "sub" the function that one returned
NoProxy ==
    [made |-> FALSE, production |-> FALSE, mapToProps |-> "detect",
     dependsOnOwnProps |-> TRUE, raw |-> NoValue, sub |-> NoValue]

NoProxyHistory ==
    [calls |-> 0, invoked |-> <<>>, first |-> NoValue, returned |-> NoValue]

\* history: the user function fn was invoked with nargs arguments and
\* returned `returned`
Invocation(fn, nargs, returned) == [fn |-> fn, nargs |-> nargs, result |-> returned]

\* mapToPropsProxy, lines 34-36: the arguments handed to proxy.mapToProps
ProxyArgs(dependsOnOwnProps) == IF dependsOnOwnProps THEN 2 ELSE 1

\* ---------------------------------------------------- src/unnamed/part_001
\* Times are milliseconds; Undefined stands for a time, a timer id or the
\* arguments that are undefined.  func returns the arguments it was applied
\* to.  Timers run no earlier than they are due and may run later.
DebounceArgs == {1, 2}

Waits == {0, 2}

\* the options after lines 67-82 when no options object is given
DefaultOptions(wait) ==
    [wait |-> wait, leading |-> FALSE, maxing |-> FALSE, maxWait |-> Undefined,
     trailing |-> TRUE]

\* debounce not called yet
NoDebounced ==
    [made |-> FALSE, options |-> DefaultOptions(0), lastArgs |-> Undefined,
     lastCallTime |-> Undefined, lastInvokeTime |-> 0, timerId |-> Undefined,
     returned |-> Undefined]

NoDebounceCall == [time |-> Undefined, args |-> Undefined]

NoDebounceHistory ==
    [calls |-> 0, first |-> Undefined, lastCall |-> NoDebounceCall,
     invoked |-> NoDebounceCall, before |-> NoDebounceCall, burst |-> 0,
     began |-> Undefined]

Min(a, b) == IF a <= b THEN a ELSE b

\* shouldInvoke comparing with wait strictly
shouldInvokeEarly(d, time) ==
    \/ d.lastCallTime = Undefined
    \/ time - d.lastCallTime >= d.options.wait - 1
    \/ time - d.lastCallTime < 0
    \/ d.options.maxing /\ time - d.lastInvokeTime >= d.options.maxWait

\* shouldInvoke(time)
shouldInvoke(d, time) ==
    \/ d.lastCallTime = Undefined
    \/ time - d.lastCallTime >= d.options.wait
    \/ time - d.lastCallTime < 0
    \/ d.options.maxing /\ time - d.lastInvokeTime >= d.options.maxWait

\* remainingWait(time)
remainingWait(d, time) ==
    LET timeWaiting == d.options.wait - (time - d.lastCallTime)
    IN  IF d.options.maxing
        THEN Min(timeWaiting, d.options.maxWait - (time - d.lastInvokeTime))
        ELSE timeWaiting

\* invokeFunc(time): the closure after it
invokeFunc(d, time) ==
    [d EXCEPT !.lastArgs = Undefined, !.lastInvokeTime = time, !.returned = d.lastArgs]

\* history: func was invoked at `time` by the closure d
Invoked(h, d, time) ==
    [calls |-> 0, first |-> Undefined, lastCall |-> h.lastCall,
     invoked |-> [time |-> time, args |-> d.lastArgs],
     before |-> h.lastCall, burst |-> h.calls, began |-> h.first]

\* history: the debounced function was called with args
Called(h, callArgs) ==
    [h EXCEPT !.calls = Min(2, @ + 1),
              !.first = IF h.calls = 0 THEN clock ELSE @,
              !.lastCall = [time |-> clock, args |-> callArgs]]

DebounceIdle ==
    /\ clock = 0
    /\ debounced = NoDebounced
    /\ debounceHistory = NoDebounceHistory

DebounceFrame ==
    UNCHANGED <<created, currentReducer, currentState, nextListeners, sameArray,
                isDispatching, subs, stack, thrown, lastReduced, replaced,
                reducerVars, closureVars, composeVars, middlewareVars, containerVars,
                mergeVars, proxyVars, warnings>>

\* debounce(func, wait) with no options
Debounce(wait) ==
    /\ ~debounced.made
    /\ debounced' = [NoDebounced EXCEPT !.made = TRUE, !.options = DefaultOptions(wait)]
    /\ UNCHANGED <<clock, debounceHistory>>
    /\ DebounceFrame

\* debounced(...args), lines 167-191.  (With maxWait, line 181 starts a
\* timer without clearing the one that is pending; the options of this
\* model never take that branch.)
Debounced(callArgs) ==
    /\ debounced.made
    /\ LET time == clock
           isInvoking == shouldInvoke(debounced, time)
           d == [debounced EXCEPT !.lastArgs = callArgs, !.lastCallTime = time]
           h == Called(debounceHistory, callArgs)
           edge == [d EXCEPT !.lastInvokeTime = time, !.timerId = clock + d.options.wait]
           tight == [d EXCEPT !.timerId = clock + d.options.wait]
       IN  IF isInvoking /\ d.timerId = Undefined
           THEN IF d.options.leading
                THEN /\ debounced' = invokeFunc(edge, time)
                     /\ debounceHistory' = Invoked(h, edge, time)
                ELSE /\ debounced' = edge
                     /\ debounceHistory' = h
           ELSE IF isInvoking /\ d.options.maxing
           THEN /\ debounced' = invokeFunc(tight, time)
                /\ debounceHistory' = Invoked(h, tight, time)
           ELSE /\ debounced' = IF d.timerId = Undefined THEN tight ELSE d
                /\ debounceHistory' = h
    /\ UNCHANGED clock
    /\ DebounceFrame

\* the pending timer runs timerExpired, lines 128-149: trailingEdge when
\* shouldInvoke says so, a new timer otherwise
TimerExpired ==
    /\ debounced.timerId # Undefined
    /\ clock >= debounced.timerId
    /\ LET time == clock
           d == debounced
       IN  IF shouldInvoke(d, time)
           THEN IF d.options.trailing /\ d.lastArgs # Undefined
                THEN /\ debounced' = invokeFunc([d EXCEPT !.timerId = Undefined], time)
                     /\ debounceHistory' = Invoked(debounceHistory, d, time)
                ELSE /\ debounced' = [d EXCEPT !.timerId = Undefined, !.lastArgs = Undefined]
                     /\ debounceHistory' = debounceHistory
           ELSE /\ debounced' = [d EXCEPT !.timerId = clock + remainingWait(d, time)]
                /\ debounceHistory' = debounceHistory
    /\ UNCHANGED clock
    /\ DebounceFrame

\* a millisecond passes
Tick ==
    /\ clock < MaxTime
    /\ clock' = clock + 1
    /\ UNCHANGED <<debounced, debounceHistory>>
    /\ DebounceFrame

StagesIdle ==
    /\ mergeProxy = NoMergeProxy
    /\ mergeHistory = NoMergeHistory
    /\ proxy = NoProxy
    /\ proxyHistory = NoProxyHistory
    /\ warnings = 0
    /\ DebounceIdle

\* initProxySelector(dispatch, {displayName}) for the user function
\* mapToProps, in a build whose NODE_ENV is 'production' or is not
InitProxySelector(mapToProps, production) ==
    /\ ~proxy.made
    /\ mapToProps \in FunctionValues
    /\ proxy' = [NoProxy EXCEPT !.made = TRUE, !.production = production,
                                !.raw = mapToProps]
    /\ UNCHANGED <<proxyHistory, warnings, mergeVars, debounceVars>>
    /\ UNCHANGED <<created, currentReducer, currentState, nextListeners, sameArray,
                   isDispatching, subs, stack, thrown, lastReduced, replaced,
                   reducerVars, closureVars, composeVars, middlewareVars, containerVars>>

\* detectFactoryAndVerify keeping the user function whatever it returned
StageStaysRaw(props) == "raw"

\* lines 47-48: if (typeof props === 'function') proxy.mapToProps = props
StageAfterFirstCall(props) == IF props.fnc THEN "sub" ELSE "raw"

\* detectFactoryAndVerify checking what the user function returned
VerifiedFirstResult(first, props) == first

\* line 54: the value handed to verifyPlainObject, `first` being what the
\* user function returned and props what the proxy returns
Verified(first, props) == props

\* A call mapToPropsProxy(stateOrDispatch, ownProps).  r1 is what the user
\* function that the call invokes first returns, r2 what the function
\* returned by the user function returns when the call invokes it too.
MapToPropsProxy(r1, r2) ==
    /\ proxy.made
    /\ proxyHistory.calls < MaxStageCalls
    /\ IF proxy.mapToProps = "detect"
       THEN LET d1 == getDependsOnOwnProps(proxy.raw)
                stage == StageAfterFirstCall(r1)
                d2 == getDependsOnOwnProps(r1)
                props == IF stage = "sub" THEN r2 ELSE r1
            IN  /\ r1 \in ObjectValues \cup FunctionValues
                /\ IF stage = "sub" THEN r2 \in OpaqueValues ELSE r2 = NoValue
                /\ proxy' = [proxy EXCEPT
                                !.mapToProps = stage,
                                !.dependsOnOwnProps = IF stage = "sub" THEN d2 ELSE d1,
                                !.sub = IF stage = "sub" THEN r1 ELSE @]
                /\ proxyHistory' =
                      [calls |-> 1,
                       invoked |-> <<Invocation("raw", ProxyArgs(d1), r1)>>
                                   \o (IF stage = "sub"
                                       THEN <<Invocation("sub", ProxyArgs(d2), r2)>>
                                       ELSE <<>>),
                       first |-> props,
                       returned |-> props]
                /\ warnings' = IF Verifies(proxy)
                               THEN verifyPlainObject(Verified(r1, props), warnings)
                               ELSE warnings
       ELSE /\ r1 \in OpaqueValues
            /\ r2 = NoValue
            /\ proxy' = proxy
            /\ proxyHistory' =
                  [proxyHistory EXCEPT
                      !.calls = @ + 1,
                      !.invoked = Append(@, Invocation(proxy.mapToProps,
                                                       ProxyArgs(proxy.dependsOnOwnProps),
                                                       r1)),
                      !.returned = r1]
            /\ warnings' = warnings
    /\ UNCHANGED <<mergeVars, debounceVars>>
    /\ UNCHANGED <<created, currentReducer, currentState, nextListeners, sameArray,
                   isDispatching, subs, stack, thrown, lastReduced, replaced,
                   reducerVars, closureVars, composeVars, middlewareVars, containerVars>>

\* initMergePropsProxy(dispatch, {displayName, pure, areMergedPropsEqual}),
\* in a build whose NODE_ENV is 'production' or is not
InitMergePropsProxy(pure, production) ==
    /\ ~mergeProxy.made
    /\ mergeProxy' = [NoMergeProxy EXCEPT !.made = TRUE, !.pure = pure,
                                          !.production = production]
    /\ UNCHANGED <<mergeHistory, warnings, proxyVars, debounceVars>>
    /\ UNCHANGED <<created, currentReducer, currentState, nextListeners, sameArray,
                   isDispatching, subs, stack, thrown, lastReduced, replaced,
                   reducerVars, closureVars, composeVars, middlewareVars, containerVars>>

\* line 18 replacing the memoized result on every call
ReplacesMergedAlways(p, nextMergedProps) == TRUE

\* line 18: !pure || !areMergedPropsEqual(nextMergedProps, mergedProps)
ReplacesMerged(p, nextMergedProps) ==
    ~p.pure \/ ~areMergedPropsEqual(nextMergedProps, p.mergedProps)

\* the first call leaving hasRunOnce as it is
HasRunOnceNever(p) == p.hasRunOnce

\* line 22: hasRunOnce = true
HasRunOnceSet(p) == TRUE

\* what the user's mergeProps can return to the next call: a new object, or
\* the object that the proxy has memoized
MergePropsResults ==
    FreshObjects(mergeHistory.calls + 1)
    \cup (IF mergeProxy.hasRunOnce THEN {mergeProxy.mergedProps} ELSE {})

\* mergePropsProxy(stateProps, dispatchProps, ownProps), the user's
\* mergeProps returning nextMergedProps
MergePropsProxy(nextMergedProps) ==
    /\ mergeProxy.made
    /\ mergeHistory.calls < MaxStageCalls
    /\ nextMergedProps \in MergePropsResults
    /\ LET p == mergeProxy
           memo == IF p.hasRunOnce
                   THEN IF ReplacesMerged(p, nextMergedProps)
                        THEN nextMergedProps ELSE p.mergedProps
                   ELSE nextMergedProps
       IN  /\ mergeProxy' = [p EXCEPT !.hasRunOnce = @ \/ HasRunOnceSet(p),
                                      !.mergedProps = memo]
           /\ warnings' = IF ~p.hasRunOnce /\ Verifies(p)
                          THEN verifyPlainObject(memo, warnings)
                          ELSE warnings
           /\ mergeHistory' =
                 [calls |-> mergeHistory.calls + 1,
                  first |-> IF mergeHistory.calls = 0 THEN nextMergedProps
                            ELSE mergeHistory.first,
                  next |-> nextMergedProps,
                  previous |-> p.mergedProps,
                  ranBefore |-> p.hasRunOnce,
                  returned |-> memo]
    /\ UNCHANGED <<proxyVars, debounceVars>>
    /\ UNCHANGED <<created, currentReducer, currentState, nextListeners, sameArray,
                   isDispatching, subs, stack, thrown, lastReduced, replaced,
                   reducerVars, closureVars, composeVars, middlewareVars, containerVars>>

\* the state at line 59 of createStore: the reducer and the preloaded state
\* taken, no listener, the INIT dispatch still to come
Init ==
    /\ created = "constructing"
    /\ currentReducer = InitialReducer
    /\ currentState \in PreloadedStates
    /\ nextListeners = <<>>
    /\ sameArray = TRUE
    /\ isDispatching = FALSE
    /\ subs = <<>>
    /\ stack = <<>>
    /\ thrown = "none"
    /\ lastReduced = currentState
    /\ replaced = 0
    /\ combined = FALSE
    /\ givenReducers = <<>>
    /\ finalReducers = <<>>
    /\ shapeAssertionError = "none"
    /\ heap = <<>>
    /\ lastCall = NoCall
    /\ ComposeIdle
    /\ MiddlewareIdle
    /\ ContainersIdle
    /\ StagesIdle

\* The callers of this specification hand subscribe a function; replaceReducer
\* is left to the specification that is about it.
Next ==
    \/ CreateStore
    \/ \E a \in ActionValues : Dispatch(a)
    \/ ReducerReturns
    \/ ReducerThrows
    \/ ListenerReturns
    \/ ListenerThrows
    \/ \E l \in ListenerFns : Subscribe(l)
    \/ \E h \in 1..MaxCalls : Unsubscribe(h)

Spec == Init /\ [][Next]_vars

\* ------------------------------------------------ a store of a combination
\* the values of the keys "a" and "b" in the argument of combineReducers: a
\* key can be absent, and its value can be something that is no function
ReducersOf(k) ==
    {<<>>} \cup {<<[key |-> k, fn |-> f]>> : f \in SubReducers \cup {NotAFunction}}

ReducerMaps == {x \o y : x \in ReducersOf("a"), y \in ReducersOf("b")}

PreloadedObjects == [Keys -> {Undefined, 1}]

CombineActions == {[plain |-> TRUE, type |-> "SET"], [plain |-> TRUE, type |-> "BAD"]}

\* combineReducers(reducers)
CombineReducers(reducers) ==
    /\ ~combined
    /\ LET fr == SelectSeq(reducers, LAMBDA e : e.fn # NotAFunction)
           err == assertReducerShape(fr, 1)
       IN  /\ finalReducers' = fr
           /\ givenReducers' = reducers
           /\ shapeAssertionError' = err
           /\ thrown' = CombineThrows(err)
    /\ combined' = TRUE
    /\ UNCHANGED <<created, currentReducer, currentState, nextListeners, sameArray,
                   isDispatching, subs, stack, lastReduced, replaced, reducerVars,
                   outsideCombine>>

\* createStore(combination, preloadedState)
CreateCombinedStore ==
    /\ combined /\ thrown = "none" /\ currentReducer = "combination"
    /\ CreateStore

\* before combineReducers is called; the preloaded state is undefined or an
\* object
InitCombine ==
    /\ created = "constructing"
    /\ currentReducer = "combination"
    /\ heap \in {<<>>} \cup {<<o>> : o \in PreloadedObjects}
    /\ currentState = IF heap = <<>> THEN Undefined ELSE 1
    /\ nextListeners = <<>>
    /\ sameArray = TRUE
    /\ isDispatching = FALSE
    /\ subs = <<>>
    /\ stack = <<>>
    /\ thrown = "none"
    /\ lastReduced = currentState
    /\ replaced = 0
    /\ combined = FALSE
    /\ givenReducers = <<>>
    /\ finalReducers = <<>>
    /\ shapeAssertionError = "none"
    /\ lastCall = NoCall
    /\ ComposeIdle
    /\ MiddlewareIdle
    /\ ContainersIdle
    /\ StagesIdle

NextCombine ==
    \/ \E reducers \in ReducerMaps : CombineReducers(reducers)
    \/ CreateCombinedStore
    \/ \E a \in CombineActions : Dispatch(a)
    \/ ReducerReturns
    \/ ReducerThrows

SpecCombine == InitCombine /\ [][NextCombine]_vars

\* ---------------------------------------------------------------- compose
RECURSIVE SeqsUpTo(_, _)
SeqsUpTo(S, n) ==
    IF n = 0 THEN {<<>>}
    ELSE LET shorter == SeqsUpTo(S, n - 1)
         IN  shorter \cup {Append(q, x) : q \in shorter, x \in S}

\* what compose is called with, and what the composed function is called with
FuncLists == SeqsUpTo({Fn(n) : n \in FuncNames}, MaxFuncs)

ArgLists == {<< <<"233">> >>, << <<"233">>, <<"7">> >>}

\* compose(...fs), by both versions
Compose(fs) ==
    /\ composed = <<>>
    /\ funcs' = fs
    /\ composed' = <<compose(fs), composeReduceRight(fs)>>
    /\ UNCHANGED <<args, result>>
    /\ UNCHANGED <<created, currentReducer, currentState, nextListeners, sameArray,
                   isDispatching, subs, stack, thrown, lastReduced, replaced,
                   reducerVars, closureVars, middlewareVars, containerVars,
                   stageVars>>

\* the call of both composed functions with the arguments as
CallComposed(as) ==
    /\ composed # <<>>
    /\ args' = as
    /\ result' = <<Call(composed[1], as), Call(composed[2], as)>>
    /\ UNCHANGED <<funcs, composed>>
    /\ UNCHANGED <<created, currentReducer, currentState, nextListeners, sameArray,
                   isDispatching, subs, stack, thrown, lastReduced, replaced,
                   reducerVars, closureVars, middlewareVars, containerVars,
                   stageVars>>

NextCompose ==
    \/ \E fs \in FuncLists : Compose(fs)
    \/ \E as \in ArgLists : CallComposed(as)

SpecCompose == Init /\ [][NextCompose]_vars

\* the enhanced store, for reducers that return
MiddlewareLists == SeqsUpTo(MiddlewareKinds, MaxFuncs)

NextMiddleware ==
    \/ \E ms \in MiddlewareLists : ApplyMiddleware(ms)
    \/ CreateBaseStore
    \/ ReducerReturns
    \/ MapMiddleware
    \/ SetupReturns
    \/ AssignDispatch
    \/ \E a \in {IncAction, ThunkAction} : EnhancedDispatch(a)
    \/ MiddlewareRuns
    \/ BaseDispatch
    \/ ChainReturn

SpecMiddleware == Init /\ [][NextMiddleware]_vars

\* the enhanced store with a caller that also replaces the reducer
NextEnhanced ==
    \/ NextMiddleware
    \/ \E r \in Reducers : EnhancedReplaceReducer(r)

SpecEnhanced == Init /\ [][NextEnhanced]_vars

\* the store of a host tree of containers, for reducers that return
NextConnect ==
    \/ CreateStore
    \/ ReducerReturns
    \/ \E c \in ContainerNames, mode \in BOOLEAN, given \in ContainerNames \cup {"none"},
          kind \in SelectorKinds : Mount(c, mode, given, kind)
    \/ \E a \in {IncAction, NopAction} : ConnectDispatch(a)
    \/ OutsideSubscribes("l1")
    \/ StoreCallsListener
    \/ StoreCallsOutsideListener
    \/ OnStateChange
    \/ HostUpdates
    \/ ComponentDidUpdate
    \/ NotifyNestedSubs
    \/ ComponentWillUnmount
    \/ HandlerReturns
    \/ \E c \in ContainerNames : HostFlush(c)
    \/ \E c \in ContainerNames : HostUnmounts(c)
    \/ \E c \in ContainerNames : UnmountsAgain(c)

SpecConnect == Init /\ [][NextConnect]_vars

\* The store of a host tree that constructs the containers before it mounts
\* them, or constructs them and never mounts them; the source selectors may
\* throw and may depend on the own props.  Every container takes its store
\* from context.
OwnProps == {0, 1}

NextLifecycle ==
    \/ CreateStore
    \/ ReducerReturns
    \/ \E c \in ContainerNames, kind \in SelectorKinds \cup MoreSelectorKinds :
          Construct(c, FALSE, "none", kind)
    \/ \E c \in ContainerNames : ComponentDidMount(c)
    \/ \E a \in {IncAction, NopAction} : ConnectDispatch(a)
    \/ StoreCallsListener
    \/ OnStateChange
    \/ HostUpdates
    \/ ComponentDidUpdate
    \/ NotifyNestedSubs
    \/ ComponentWillUnmount
    \/ HandlerReturns
    \/ \E own \in OwnProps : HostSettled /\ HostRerenders(own)
    \/ \E c \in ContainerNames : HostSettled /\ HostFlush(c)
    \/ \E c \in ContainerNames : HostSettled /\ HostUnmounts(c)

SpecLifecycle == Init /\ [][NextLifecycle]_vars

\* the same tree in a build that is not a production build, with selectors
\* that do not throw, and with the connect call of a container hot reloaded
\* while no other reload waits for its instance to update
NextReload ==
    \/ CreateStore
    \/ ReducerReturns
    \/ \E c \in ContainerNames, kind \in SelectorKinds :
          Construct(c, FALSE, "none", kind)
    \/ \E c \in ContainerNames : ComponentDidMount(c)
    \/ ConnectDispatch(IncAction)
    \/ StoreCallsListener
    \/ OnStateChange
    \/ HostUpdates
    \/ ComponentDidUpdate
    \/ NotifyNestedSubs
    \/ ComponentWillUnmount
    \/ HandlerReturns
    \/ \E c \in ContainerNames : HostSettled /\ HostFlush(c)
    \/ \E c \in ContainerNames : HostSettled /\ HostUnmounts(c)
    \/ \E c \in ContainerNames, kind \in SelectorKinds, forces \in BOOLEAN :
          HostSettled /\ HotReload(c, kind, forces)

SpecReload == Init /\ [][NextReload]_vars

\* one merge stage and its callers
NextMerge ==
    \/ \E pure \in BOOLEAN, production \in BOOLEAN : InitMergePropsProxy(pure, production)
    \/ \E o \in MergePropsResults : MergePropsProxy(o)

SpecMerge == Init /\ [][NextMerge]_vars

\* one state or dispatch stage made of a user function, and its callers
NextProxy ==
    \/ \E f \in FunctionValues, production \in BOOLEAN : InitProxySelector(f, production)
    \/ \E r1 \in ObjectValues \cup FunctionValues,
          r2 \in OpaqueValues \cup {NoValue} : MapToPropsProxy(r1, r2)

SpecProxy == Init /\ [][NextProxy]_vars

\* one debounced function made with the default options; its callers call
\* the debounced function and neither cancel nor flush
NextDebounce ==
    \/ \E wait \in Waits : Debounce(wait)
    \/ \E a \in DebounceArgs : Debounced(a)
    \/ TimerExpired
    \/ Tick

SpecDebounce == Init /\ [][NextDebounce]_vars

\* the store with replaceReducer among its calls, for callers that dispatch
\* well-formed actions and keep their subscriptions
NextReplace ==
    \/ CreateStore
    \/ \E a \in ActionValues : WellFormed(a) /\ Dispatch(a)
    \/ ReducerReturns
    \/ ReducerThrows
    \/ ListenerReturns
    \/ \E l \in ListenerFns : Subscribe(l)
    \/ \E r \in Reducers \cup {NotAFunction} : ReplaceReducer(r)

SpecReplace == Init /\ [][NextReplace]_vars

----------------------------------------------------------------------------
\* Properties of the store

IsPrefix(p, s) == Len(p) <= Len(s) /\ \A k \in 1..Len(p) : p[k] = s[k]

\* the subscribe calls whose unsubscribe has not been called
ActiveHandles == {h \in 1..Len(subs) : subs[h].isSubscribed}

ActiveCount(l) == Cardinality({h \in ActiveHandles : subs[h].listener = l})

\* the listeners of the active subscribe calls, in the order of those calls
Registry ==
    LET sel == SelectSeq(subs, LAMBDA e : e.isSubscribed)
    IN  [k \in 1..Len(sel) |-> sel[k].listener]

NotifyingFrames == {k \in 1..Len(stack) : Notifying(stack[k])}

StoreFields == <<created, currentReducer, currentState, nextListeners, sameArray,
                 isDispatching, subs, stack, lastReduced, replaced>>

\* C1: the state is at every moment the value the latest completed reducer
\* call returned for (state before it, its action), and the preloaded state
\* before any; the first such call is the INIT dispatch, made with the
\* preloaded state before createStore returns, so a created store never holds
\* an undefined state.
C1_StateIsReducerResult ==
    /\ currentState = lastReduced
    /\ created = "ready" => currentState # Undefined
    /\ created = "constructing" =>
           /\ currentState \in PreloadedStates
           /\ Len(stack) <= 1
           /\ \A k \in 1..Len(stack) : stack[k].action = InitAction

C1_Witness ==
    /\ created = "ready" /\ stack = <<>>
    /\ currentState = 2 /\ lastReduced = 2

\* C2: dispatch of a value that is not a plain object, or whose type is
\* undefined, throws and changes nothing: no reducer is called, the state and
\* the listener lists are the same, and no listener is called.
C2_MalformedActionRejected ==
    [][\A a \in ActionValues :
          (~WellFormed(a) /\ Dispatch(a)) =>
              /\ thrown' = "ActionError"
              /\ UNCHANGED StoreFields]_vars

C2_Witness ==
    /\ thrown = "ActionError" /\ stack = <<>> /\ created = "ready"
    /\ nextListeners # <<>>

\* C3: dispatch called while a reducer is running throws, and the call leaves
\* the state, the flag, the lists and the dispatch in progress as they were.
C3_NoDispatchInReducer ==
    [][\A a \in ActionValues :
          (InReducer /\ Dispatch(a)) =>
              /\ thrown' \in {"ActionError", "ReducersMayNotDispatch"}
              /\ UNCHANGED StoreFields]_vars

C3_Witness ==
    /\ thrown = "ReducersMayNotDispatch" /\ InReducer /\ created = "ready"

\* C4: when the reducer throws, dispatch ends with the flag cleared, the state
\* it had and no listener called; the flag is false whenever no reducer is
\* running, so a well-formed dispatch is then never rejected as reentrant.
C4_FlagClearedOnThrow ==
    /\ [](~InReducer => ~isDispatching)
    /\ [](~InReducer =>
             \A a \in ActionValues :
                 WellFormed(a) => DispatchError(a, isDispatching) = "none")
    /\ [][ReducerThrows =>
             /\ ~isDispatching'
             /\ currentState' = currentState
             /\ stack' = Pop(stack)
             /\ UNCHANGED <<nextListeners, sameArray, subs>>]_vars

C4_Witness ==
    /\ thrown = "ReducerError" /\ created = "ready" /\ ~isDispatching
    /\ nextListeners # <<>>

\* C5: the array a notification pass iterates has the content it had when the
\* pass took it, whatever subscribe and unsubscribe calls were made since; as
\* long as none was made, it is the content of the next list, so a pass adopts
\* every earlier change.
C5_SnapshotNotMutated ==
    \A k \in NotifyingFrames :
        /\ stack[k].listeners = stack[k].snap
        /\ stack[k].fresh => stack[k].snap = nextListeners
        /\ stack[k].shared => sameArray

C5_Witness ==
    /\ InListener /\ ~Top.fresh
    /\ Top.listeners = Top.snap /\ Top.snap # nextListeners

\* C6: a pass never calls an entry pushed by a subscribe call made after the
\* pass took its array; a dispatch that starts after that subscribe call has
\* the listener in its array, as long as the subscription is not cancelled.
C6_LateSubscriberWaits ==
    /\ \A k \in NotifyingFrames :
           \A j \in 1..Len(stack[k].calls) : stack[k].calls[j].by \notin stack[k].late
    /\ \A k \in NotifyingFrames : \A j \in NotifyingFrames :
           k < j =>
               \A h \in stack[k].late \ stack[j].late :
                   subs[h].isSubscribed =>
                       subs[h].listener \in Elems(Fns(stack[j].snap))
    /\ \A k \in NotifyingFrames :
           stack[k].fresh =>
               \A h \in ActiveHandles : subs[h].listener \in Elems(Fns(stack[k].snap))

C6_Witness ==
    /\ Len(stack) = 2 /\ Notifying(stack[1]) /\ Notifying(stack[2])
    /\ \E h \in stack[1].late \ stack[2].late :
           /\ \E j \in 1..Len(stack[2].calls) : stack[2].calls[j].by = h
           /\ \A j \in 1..Len(stack[1].calls) : stack[1].calls[j].by # h

\* C7: a pass calls the entries of its array once each, in order, whatever is
\* unsubscribed meanwhile; an array taken after an unsubscribe call holds a
\* listener as many times as it has subscriptions left, so a listener with none
\* left is not called by a later dispatch.
C7_UnsubscribedDuringPass ==
    /\ \A k \in NotifyingFrames :
           /\ IsPrefix(stack[k].calls, stack[k].snap)
           /\ Len(stack[k].calls) = stack[k].i + 1
    /\ \A k \in NotifyingFrames :
           stack[k].fresh =>
               \A l \in ListenerFns : Count(Fns(stack[k].snap), l) = ActiveCount(l)

C7_Witness ==
    /\ Len(stack) = 1 /\ InListener /\ ~Top.fresh /\ Top.late = {}
    /\ Len(Top.calls) = 2
    /\ ActiveCount(Top.calls[2].fn) = 0
    /\ Count(Fns(Top.snap), Top.calls[2].fn) = 1

\* C8 as stated: when nothing subscribes or unsubscribes during a dispatch,
\* the listeners are called in the order of the subscribe calls of the
\* current subscriptions.
C8_OrderOfSubscribeCalls ==
    \A k \in NotifyingFrames :
        stack[k].quiet =>
            /\ IsPrefix(Fns(stack[k].calls), Registry)
            /\ stack[k].result # Undefined

NoListenerSubscribedTwice ==
    \A g \in 1..Len(subs) : \A h \in 1..Len(subs) :
        subs[g].listener = subs[h].listener => g = h

\* C8: when nothing subscribes or unsubscribes during a dispatch, the pass
\* calls every entry of the listener array once, in array order, after the
\* state was replaced, and dispatch returns only when all were called.  The
\* array holds each listener once per current subscription of it, in the
\* order of the subscribe calls that pushed the entries; that is the order of
\* the subscribe calls of the current subscriptions when no listener was
\* subscribed twice.
C8_QuietPassInArrayOrder ==
    /\ [](\A k \in NotifyingFrames :
             stack[k].quiet =>
                 /\ IsPrefix(stack[k].calls, stack[k].snap)
                 /\ \A i \in 1..Len(stack[k].snap) : \A j \in 1..Len(stack[k].snap) :
                        i < j => stack[k].snap[i].by < stack[k].snap[j].by
                 /\ \A i \in 1..Len(stack[k].snap) :
                        subs[stack[k].snap[i].by].listener = stack[k].snap[i].fn
                 /\ \A l \in ListenerFns :
                        Count(Fns(stack[k].snap), l) = ActiveCount(l)
                 /\ NoListenerSubscribedTwice => Fns(stack[k].snap) = Registry
                 /\ stack[k].result # Undefined)
    /\ [](InListener => ~isDispatching /\ currentState = lastReduced)
    /\ [][(ListenerReturns /\ Len(stack') < Len(stack) /\ Top.quiet) =>
             Top.calls = Top.snap]_vars

C8_Witness ==
    /\ Len(stack) = 1 /\ InListener /\ Top.quiet
    /\ Len(Top.snap) = 2 /\ Top.calls = Top.snap
    /\ Fns(Top.snap) # Registry
    /\ currentState = Top.result

\* C9: dispatch of a well-formed action from a listener is accepted and its
\* reducer starts at once; the passes under it keep their place until it is
\* over, and every listener that runs sees the state of the latest reducer
\* call, the nested one included.
C9_NestedDispatchFromListener ==
    /\ [](InListener => getState = lastReduced)
    /\ [][\A a \in ActionValues :
             (InListener /\ WellFormed(a) /\ Dispatch(a)) =>
                 /\ thrown' = "none"
                 /\ stack' = Append(stack, NewFrame(a, currentReducer))]_vars
    /\ [][\A k \in 1..(Len(stack) - 1) :
             k <= Len(stack') =>
                 /\ stack'[k].i = stack[k].i
                 /\ stack'[k].calls = stack[k].calls
                 /\ stack'[k].pc = stack[k].pc]_vars

C9_Witness ==
    /\ Len(stack) = 1 /\ InListener /\ Len(Top.calls) = 2
    /\ Top.result # currentState /\ getState = lastReduced

\* C10: the first call of an unsubscribe function removes one entry of its
\* listener from the next list and no other entry; every further call leaves
\* the lists as they are, also when the listener is subscribed more than once.
C10_UnsubscribeIdempotent ==
    [][\A h \in 1..Len(subs) :
          Unsubscribe(h) =>
              IF subs[h].isSubscribed
              THEN /\ Len(nextListeners') = Len(nextListeners) - 1
                   /\ \A l \in ListenerFns :
                          Count(Fns(nextListeners'), l) =
                              Count(Fns(nextListeners), l)
                                  - (IF l = subs[h].listener THEN 1 ELSE 0)
                   /\ ~subs'[h].isSubscribed
              ELSE UNCHANGED StoreFields]_vars

C10_Witness ==
    \E g \in 1..Len(subs) : \E h \in 1..Len(subs) :
        /\ ~subs[g].isSubscribed /\ subs[h].isSubscribed
        /\ subs[g].listener = subs[h].listener
        /\ Count(Fns(nextListeners), subs[h].listener) = 1
        /\ thrown = "none"

\* C11 as stated: replaceReducer with a callable argument swaps the reducer
\* and its INIT dispatch takes place, so that the state becomes
\* nextReducer(previous state, INIT) and the listeners are notified.
C11_ReplaceAlwaysReinitializes ==
    [][\A r \in Reducers :
          ReplaceReducer(r) =>
              /\ currentReducer' = r
              /\ thrown' = "none"
              /\ stack' = Append(stack, NewFrame(InitAction, r))]_vars

\* C11: replaceReducer with a callable argument swaps the reducer and calls
\* dispatch with the INIT action.  While no reducer runs the dispatch is
\* accepted: it calls the new reducer with the state as it is and INIT, and
\* when that returns the state is its result and a pass over the listeners
\* starts.  Inside a reducer the dispatch is rejected after the swap: state,
\* lists and calls in flight stay.  Every dispatch calls the reducer that is
\* current when it is made, and only replaceReducer changes it.  With a
\* non-callable argument the call fails and changes no field of the store.
C11_ReplaceReducer ==
    /\ [][\A r \in Reducers :
             (ReplaceReducer(r) /\ ~isDispatching) =>
                 /\ currentReducer' = r
                 /\ thrown' = "none"
                 /\ stack' = Append(stack, NewFrame(InitAction, r))
                 /\ currentState' = currentState]_vars
    /\ [][\A r \in Reducers :
             (ReplaceReducer(r) /\ isDispatching) =>
                 /\ currentReducer' = r
                 /\ thrown' = "ReducersMayNotDispatch"
                 /\ UNCHANGED <<created, currentState, nextListeners, sameArray,
                                isDispatching, subs, stack, lastReduced>>]_vars
    /\ [][ReplaceReducer(NotAFunction) =>
             /\ thrown' = "ExpectedReducer"
             /\ UNCHANGED StoreFields]_vars
    /\ [][(InReducer /\ ReducerReturns) =>
             /\ currentState' = Reduce(Top.reducer, currentState, Top.action)
             /\ nextListeners # <<>> =>
                    /\ InListener' /\ Len(stack') = Len(stack)
                    /\ Top'.snap = nextListeners /\ Top'.calls = <<nextListeners[1]>>]_vars
    /\ [][\A a \in ActionValues :
             (Dispatch(a) /\ stack' # stack) => Top'.reducer = currentReducer]_vars
    /\ [][currentReducer' # currentReducer =>
             \E r \in Reducers : ReplaceReducer(r)]_vars
    /\ [](currentState = lastReduced)

C11_Witness ==
    /\ Len(stack) = 1 /\ InListener
    /\ Top.action = InitAction /\ Top.reducer = "countByTwo"
    /\ currentReducer = "countByTwo" /\ Top.calls = Top.snap
    /\ currentState = Reduce("countByTwo", Top.result, InitAction)

----------------------------------------------------------------------------
\* Properties of combineReducers

\* the object the last call of the combination read its slices from
LastInput ==
    IF lastCall.state = Undefined THEN EmptyObject ELSE heap[lastCall.state]

\* the kept reducers whose result for the last call differs from the slice
ChangedKeys ==
    {i \in 1..Len(finalReducers) :
        SubReduce(finalReducers[i].fn, LastInput[finalReducers[i].key], lastCall.action)
            # LastInput[finalReducers[i].key]}

\* the kept reducers that return undefined for the last call
UndefinedKeys ==
    {i \in 1..Len(finalReducers) :
        SubReduce(finalReducers[i].fn, LastInput[finalReducers[i].key], lastCall.action)
            = Undefined}

Returned == lastCall.result # Undefined

\* C12: a call of the combination that returns gives back its input object
\* itself when no reducer's result differs from its slice (for an undefined
\* input, the empty default object), and otherwise an object that did not
\* exist before, holding every reducer's result under its key and nothing
\* else; the input object is left as it was.
C12_SameReferenceUnlessChanged ==
    Returned =>
        /\ lastCall.result \in 1..Len(heap)
        /\ (ChangedKeys = {} /\ lastCall.state # Undefined) =>
               lastCall.result = lastCall.state
        /\ (ChangedKeys = {} /\ lastCall.state = Undefined) =>
               heap[lastCall.result] = EmptyObject
        /\ ChangedKeys # {} =>
               /\ lastCall.result # lastCall.state
               /\ lastCall.state # Undefined => lastCall.result > lastCall.state
               /\ \A i \in 1..Len(finalReducers) :
                      heap[lastCall.result][finalReducers[i].key] =
                          SubReduce(finalReducers[i].fn,
                                    LastInput[finalReducers[i].key], lastCall.action)
               /\ \A k \in Keys :
                      (\A i \in 1..Len(finalReducers) : finalReducers[i].key # k) =>
                          heap[lastCall.result][k] = Undefined
        /\ currentState = lastCall.result

C12_Witness ==
    /\ Returned /\ created = "ready" /\ stack = <<>>
    /\ lastCall.result = lastCall.state /\ lastCall.invoked = <<"a", "b">>
    /\ lastCall.action.type = "SET"
    /\ Len(heap) >= 3 /\ lastCall.result = Len(heap)
    /\ heap[lastCall.result] # heap[1]

\* C13: a call of the combination throws as soon as a reducer returns
\* undefined: the reducers invoked are those up to the first such key and no
\* later one, and a call that returns met none.  The store keeps the state
\* the throwing call was given.
C13_UndefinedSliceFailsAtOnce ==
    /\ (lastCall.threw = "UndefinedState") =>
           /\ UndefinedKeys # {}
           /\ \E k \in UndefinedKeys :
                  /\ \A j \in UndefinedKeys : k <= j
                  /\ lastCall.invoked = [i \in 1..k |-> finalReducers[i].key]
           /\ lastCall.result = Undefined
    /\ Returned => UndefinedKeys = {}
    /\ (lastCall.threw # "none" /\ stack = <<>>) =>
           /\ currentState = lastCall.state
           /\ ~isDispatching
           /\ thrown = lastCall.threw

C13_Witness ==
    /\ lastCall.threw = "UndefinedState" /\ created = "ready" /\ stack = <<>>
    /\ lastCall.invoked = <<"a">> /\ Len(finalReducers) = 2
    /\ currentState = lastCall.state /\ Len(heap) >= 2

\* the kept reducers that fail one of the two probes of assertReducerShape
FailingProbe ==
    {i \in 1..Len(finalReducers) :
        \/ SubReduce(finalReducers[i].fn, Undefined, InitAction) = Undefined
        \/ SubReduce(finalReducers[i].fn, Undefined, ProbeAction) = Undefined}

\* C14: combineReducers throws nothing, also when a reducer returns undefined
\* on one of the probes; the error is kept, and every call of the combination
\* then throws it with no reducer invoked, so no store is created on it.
C14_ShapeErrorRaisedAtFirstCall ==
    /\ (combined /\ created = "constructing" /\ stack = <<>>) => thrown = "none"
    /\ combined => (shapeAssertionError # "none" <=> FailingProbe # {})
    /\ shapeAssertionError # "none" =>
           /\ lastCall.invoked = <<>>
           /\ lastCall.threw \in {"none", shapeAssertionError}
           /\ lastCall.result = Undefined
           /\ created # "ready"
           /\ created = "failed" =>
                  lastCall.threw = shapeAssertionError /\ thrown = shapeAssertionError

C14_Witness ==
    /\ created = "failed" /\ shapeAssertionError = "UndefinedOnProbe"
    /\ lastCall.threw = "UndefinedOnProbe" /\ lastCall.invoked = <<>>
    /\ Len(finalReducers) = 2 /\ thrown = "UndefinedOnProbe"

----------------------------------------------------------------------------
\* Properties of compose

\* f1(f2(...fk(first argument))) for the functions from the i-th on
RECURSIVE Nested(_, _, _)
Nested(fs, i, as) ==
    IF i > Len(fs) THEN as[1] ELSE Apply(fs[i].name, Nested(fs, i + 1, as))

Reversed(q) == [k \in 1..Len(q) |-> q[Len(q) + 1 - k]]

\* C15: compose of no function is the identity on its first argument,
\* compose(f) is f itself, and compose(f1, ..., fk)(x) is f1(f2(...fk(x))),
\* calling fk first and f1 last; the reduce version and the reduceRight
\* version return the same value after the same calls in the same order.
C15_ComposeRightToLeft ==
    /\ composed # <<>> =>
           /\ Len(funcs) = 0 => composed[1] = Identity /\ composed[2] = Identity
           /\ Len(funcs) = 1 => composed[1] = funcs[1] /\ composed[2] = funcs[1]
    /\ result # <<>> =>
           /\ result[1] = result[2]
           /\ result[1].value = Nested(funcs, 1, args)
           /\ result[1].log = Reversed([k \in 1..Len(funcs) |-> funcs[k].name])
           /\ Len(funcs) = 0 => result[1].value = args[1]

C15_Witness ==
    /\ result # <<>> /\ Len(funcs) = 3
    /\ funcs[1].name = "f1" /\ funcs[2].name = "f2" /\ funcs[3].name = "f3"
    /\ result[1].value = <<"233", "f3", "f2", "f1">>
    /\ result[2].log = <<"f3", "f2", "f1">>

----------------------------------------------------------------------------
\* Properties of the middleware pipeline

\* the place of a call in the chain: i for the i-th middleware, one more than
\* the number of middlewares for store.dispatch
Position(f) ==
    IF f.fn = StoreDispatch THEN Len(middlewares) + 1 ELSE Middleware(f.fn).at

\* the call below call p is the middleware just before it, waiting for the
\* next(action) it made with the same action
CalledByPrevious(p) ==
    /\ p > 1
    /\ chainStack[p - 1].fn # StoreDispatch
    /\ Position(chainStack[p - 1]) = Position(chainStack[p]) - 1
    /\ chainStack[p - 1].pc = "called"
    /\ chainStack[p - 1].callee = "next"
    /\ chainStack[p - 1].action = chainStack[p].action

\* C16: once the chain is composed, a call of the enhanced store's dispatch
\* runs the first middleware; every other middleware, and store.dispatch
\* after the last one, runs only as the next(action) of the middleware just
\* before it; the reducer runs only inside such a call of store.dispatch; and
\* a call of the enhanced dispatch during which store.dispatch was not
\* reached leaves the state as it was.
C16_ChainOrder ==
    /\ \A p \in 1..Len(chainStack) :
          /\ chainStack[p].via = "caller" => Position(chainStack[p]) = 1
          /\ chainStack[p].via = "next" => CalledByPrevious(p)
          /\ (~chainStack[p].setup /\ Position(chainStack[p]) > 1)
                => chainStack[p].via = "next"
    /\ (phase = "composed" /\ stack # <<>>)
          => (chainStack # <<>> /\ ChainTop.fn = StoreDispatch)
    /\ (phase = "composed" /\ chainStack = <<>> /\ outerCall.made /\ ~outerCall.reached)
          => currentState = outerCall.before

\* the reducer runs for an action that the caller gave to the enhanced
\* dispatch and that two middlewares or more passed on
C16_Witness ==
    /\ phase = "composed" /\ stack # <<>>
    /\ Len(middlewares) >= 2
    /\ Len(chainStack) = Len(middlewares) + 1
    /\ chainStack[1].via = "caller"

\* C17: a call of middlewareAPI.dispatch calls the value the variable
\* dispatch has at that moment: store.dispatch while line 25 runs, and the
\* composed function afterwards, so that the action enters the first
\* middleware of the chain.
C17_ApiDispatchIsCurrentDispatch ==
    \A p \in 1..Len(chainStack) :
        chainStack[p].via = "api" =>
            IF chainStack[p].setup
            THEN chainStack[p].fn = StoreDispatch
            ELSE /\ chainStack[p].fn = dispatch
                 /\ Len(middlewares) > 0 => Position(chainStack[p]) = 1

\* a thunk that is not the first middleware dispatches an action, and that
\* action has travelled the whole chain down to the reducer
C17_Witness ==
    \E p \in 2..Len(chainStack) :
        /\ chainStack[p].via = "api" /\ ~chainStack[p].setup
        /\ Position(chainStack[p - 1]) >= 2
        /\ Len(chainStack) = p + Len(middlewares)
        /\ stack # <<>>

----------------------------------------------------------------------------
\* Properties of the containers

\* the positions of the log where instance c did ev
Did(ev, c) == {j \in 1..Len(log) : log[j].ev = ev /\ log[j].c = c}

\* the last dispatch changed what the source selector of instance c derives
ChangedProps(c) ==
    /\ propsBefore[c] # Undefined
    /\ Select(inst[c].kind, currentState) # propsBefore[c]

\* C18: after a dispatch that changes the derived props of P, every call that
\* the node of P makes of the onStateChange of C comes after a run of the
\* selector of P and, after that run, a call of P's componentDidUpdate.
C18_ChildNotifiedAfterParentUpdate ==
    \A j \in Did("handler", "C") :
        (log[j].from = "P" /\ ChangedProps("P")) =>
            \E i \in Did("run", "P"), k \in Did("didUpdate", "P") : i < k /\ k < j

\* C, subscribed through P, is notified of a dispatch that changed the props
\* of P
C18_Witness ==
    \E j \in Did("handler", "C") :
        /\ log[j].from = "P" /\ log[j].live
        /\ ChangedProps("P")
        /\ Did("didUpdate", "P") # {}

\* the places where the handler of instance c is attached: the store, the
\* nodes of the instances
AttachedAt(c) ==
    (IF \E k \in 1..Len(nextListeners) : nextListeners[k].fn = c THEN {"store"} ELSE {})
    \cup {p \in ContainerNames : \E k \in 1..Len(node[p].listeners) : node[p].listeners[k] = c}

\* the times the handler of instance c is attached
TimesAttached(c) ==
    Cardinality({k \in 1..Len(nextListeners) : nextListeners[k].fn = c})
    + Cardinality({<<p, k>> \in ContainerNames \X (1..Len(subs) + 1) :
                      k <= Len(node[p].listeners) /\ node[p].listeners[k] = c})

HandlerCalledAtMostOnce ==
    \A c \in ContainerNames : Cardinality(Did("handler", c)) <= 1

RECURSIVE NearestContextAncestor(_)
NearestContextAncestor(c) ==
    IF HostParent(c) = "none" THEN "store"
    ELSE IF ~inst[HostParent(c)].propsMode THEN HostParent(c)
    ELSE NearestContextAncestor(HostParent(c))

\* instance c and the containers above it are mounted
RECURSIVE InTree(_)
InTree(c) ==
    /\ inst[c].life = "mounted"
    /\ HostParent(c) # "none" => InTree(HostParent(c))

C20_UnmountedHandlerIsNoOp ==
    /\ hostError = "none"
    /\ \A j \in 1..Len(log) :
          /\ ~log[j].live => log[j].ev = "handler"
          /\ log[j].fromLive
    /\ \A c \in ContainerNames :
          inst[c].life = "unmounted" =>
             /\ ~inst[c].shouldComponentUpdate
             /\ c \notin pending
             /\ c \notin {hostStack[k].c : k \in {x \in 1..Len(hostStack) :
                                                    hostStack[x].kind = "notify"}}

\* the onStateChange of an unmounted instance has been called, and
\* componentWillUnmount has been called twice on an instance
C20_Witness ==
    /\ \E j \in 1..Len(log) : log[j].ev = "handler" /\ ~log[j].live
    /\ \E c \in ContainerNames : inst[c].unmounts = 2

----------------------------------------------------------------------------
\* Properties of the container lifecycle

\* the dispatch calls in flight whose listener array holds the handler of c
FramesHolding(c) ==
    {k \in 1..Len(stack) :
        \E j \in 1..Len(stack[k].listeners) : stack[k].listeners[j].fn = c}

\* C21: a container that is constructed and not mounted has an unsubscribed
\* node and no handler registered: none in the listener arrays of the store,
\* none among the subscribe calls the store has seen, none in the
\* child-listener list of a node.  The handler is attached by
\* componentDidMount only.
C21_NoHandlerBeforeMount ==
    \A c \in ContainerNames :
        inst[c].life = "constructed" =>
            /\ node[c].state = "unsubscribed"
            /\ TimesAttached(c) = 0
            /\ FramesHolding(c) = {}
            /\ \A h \in 1..Len(subs) : subs[h].listener # c

\* the store notifies the mounted P of a dispatch while C is constructed
\* and not mounted
C21_Witness ==
    /\ inst["C"].life = "constructed"
    /\ inst["P"].life = "mounted"
    /\ stack # <<>>
    /\ Did("handler", "P") # {}

\* what the step has added to the log
NewEvents == IF Len(log') >= Len(log) THEN SubSeq(log', Len(log) + 1, Len(log')) ELSE <<>>

\* the step has run the selector of instance c, has rendered instance c
RanNow(c) == \E j \in 1..Len(NewEvents) : NewEvents[j].ev = "run" /\ NewEvents[j].c = c

RenderedNow(c) == \E j \in 1..Len(NewEvents) : NewEvents[j].ev = "render" /\ NewEvents[j].c = c

\* C22: a run in which the source selector throws raises nothing: it stores
\* the error and sets shouldComponentUpdate.  A render of an instance whose
\* selector holds an error raises it, and a render raises nothing else.  A run
\* in which the source selector returns leaves no error stored, and when an
\* error was stored it sets shouldComponentUpdate, whatever props it computed.
\* (A step that runs and then renders has reset the flag again.)
C22_ErrorStoredAndRethrown ==
    [][\A c \in ContainerNames :
          /\ (RanNow(c) /\ Throws(inst'[c].kind, currentState)) =>
                 /\ inst'[c].error
                 /\ inst'[c].props = inst[c].props
                 /\ \/ RenderedNow(c)
                    \/ inst'[c].shouldComponentUpdate /\ hostError' = hostError
          /\ RenderedNow(c) =>
                 hostError' = IF inst'[c].error THEN "SelectorError" ELSE hostError
          /\ (RanNow(c) /\ ~Throws(inst'[c].kind, currentState)) =>
                 /\ ~inst'[c].error
                 /\ inst[c].error => RenderedNow(c) \/ inst'[c].shouldComponentUpdate
      ]_vars

\* the selector of a mounted instance has caught an error and a later run
\* has cleared it: the flag is set although the cached props are the ones
\* the last render passed on
C22_Witness ==
    \E c \in ContainerNames :
        /\ inst[c].life = "mounted" /\ inst[c].kind = "fragile"
        /\ ~inst[c].error
        /\ inst[c].shouldComponentUpdate
        /\ inst[c].props = inst[c].rendered

\* the step has made instance c ask the host for an update: setState in
\* onStateChange, forceUpdate in componentDidMount
AskedNow(c) ==
    \/ \E j \in 1..Len(NewEvents) : NewEvents[j].ev = "setState" /\ NewEvents[j].c = c
    \/ /\ hostStack' # <<>>
       /\ hostStack'[Len(hostStack')] = Item("force", c, <<>>)
       /\ ~Running("force")

\* C23: an instance asks the host for an update only when the flag of its
\* selector is set; a render leaves the flag reset; and when the flag of an
\* instance that the host can update is not set, no run since the last
\* render has found other props than the cached ones or caught an error, no
\* error is stored, and the cached props are the ones that the last render
\* passed on.
C23_UpdateOnlyWhenFlagged ==
    [][\A c \in ContainerNames :
          /\ AskedNow(c) => inst'[c].shouldComponentUpdate
          /\ RenderedNow(c) => ~inst'[c].shouldComponentUpdate
          /\ (/\ inst'[c].life \in {"constructed", "mounted"}
              /\ hostError' = "none"
              /\ ~inst'[c].shouldComponentUpdate) =>
                 /\ ~inst'[c].dirty
                 /\ ~inst'[c].error
                 /\ inst'[c].props = inst'[c].rendered
      ]_vars

\* P has rendered and handed C its props; the run of C found nothing new,
\* shouldComponentUpdate returned false and C was not rendered
C23_Witness ==
    /\ inst["C"].life = "mounted"
    /\ ~inst["C"].shouldComponentUpdate
    /\ Running("didUpdate") /\ HostTop.c = "P"
    /\ Did("render", "C") = {}
    /\ \E j \in Did("render", "P"), k \in Did("run", "C") : j < k

\* nothing is left for the host to do: no call in flight, no update deferred
AtRest ==
    /\ hostStack = <<>>
    /\ pending = {}
    /\ stack = <<>> \/ hostError # "none"

----------------------------------------------------------------------------
\* Properties of the selector stages

\* C24: a call of the merge stage after the first returns the memoized
\* result.  In pure mode the memoized result is the previous object when the
\* new output and the previous one are equal by areMergedPropsEqual, and the
\* new output when they are not; in non-pure mode it is the new output.
C24_MergeMemoized ==
    LET h == mergeHistory
    IN  h.ranBefore =>
           /\ h.returned = mergeProxy.mergedProps
           /\ IF mergeProxy.pure /\ areMergedPropsEqual(h.next, h.previous)
              THEN h.returned = h.previous
              ELSE h.returned = h.next

\* in pure mode the user function returned a new object equal to the
\* memoized one, and the stage returned the memoized one
C24_Witness ==
    /\ mergeProxy.pure
    /\ mergeHistory.ranBefore
    /\ mergeHistory.next.ref # mergeHistory.previous.ref
    /\ areMergedPropsEqual(mergeHistory.next, mergeHistory.previous)
    /\ mergeHistory.returned.ref = mergeHistory.previous.ref

\* C25 as stated: once the user's merge function has returned a non-plain
\* value to the first call of the merge stage, that call has returned the
\* value and one warning is recorded, however many calls have followed.
C25_ExactlyOneWarning ==
    (mergeHistory.calls >= 1 /\ ~mergeHistory.first.plain) =>
        /\ warnings = 1
        /\ mergeHistory.calls = 1 => mergeHistory.returned = mergeHistory.first

\* C25, amended: the first call of the merge stage returns what the user's
\* merge function returned to it, plain or not.  When that value is not
\* plain, one warning is recorded in a build whose NODE_ENV is not
\* 'production' and none in a production build; the later calls record no
\* warning, whatever they return.
C25_OneWarningUnlessProduction ==
    mergeHistory.calls >= 1 =>
        /\ mergeHistory.calls = 1 => mergeHistory.returned = mergeHistory.first
        /\ warnings = IF ~mergeHistory.first.plain /\ ~mergeProxy.production
                      THEN 1 ELSE 0

\* outside production, the first call and a later call have both got a
\* non-plain value from the user function: one warning
C25_Witness ==
    /\ ~mergeProxy.production
    /\ mergeHistory.calls >= 2
    /\ ~mergeHistory.first.plain
    /\ ~mergeHistory.next.plain /\ mergeHistory.returned = mergeHistory.next
    /\ warnings = 1

\* the user function that the invocation number k of the history invoked,
\* and the one that the proxy invokes now
InvokedFunction(k) ==
    IF proxyHistory.invoked[k].fn = "raw" THEN proxy.raw ELSE proxy.sub

CurrentFunction == IF proxy.mapToProps = "sub" THEN proxy.sub ELSE proxy.raw

\* the rule: a set dependsOnOwnProps property decides; without one, a
\* function of one declared parameter does not depend on the own props and
\* a function of zero, two or more does
DependsByRule(f) ==
    CASE f.flag = "true" -> TRUE
      [] f.flag = "false" -> FALSE
      [] OTHER -> f.length \in {0, 2}

\* C26: every invocation of a user function by the proxy hands it
\* (stateOrDispatch, ownProps) when the function depends on the own props by
\* the rule, and stateOrDispatch alone when it does not; once the proxy has
\* been called, its dependsOnOwnProps is what the rule says of the function
\* it invokes.
C26_ArityDecidesArguments ==
    /\ \A k \in 1..Len(proxyHistory.invoked) :
          proxyHistory.invoked[k].nargs = IF DependsByRule(InvokedFunction(k)) THEN 2 ELSE 1
    /\ proxyHistory.calls >= 1 => proxy.dependsOnOwnProps = DependsByRule(CurrentFunction)

\* a user function of one parameter was invoked with one argument, and the
\* function it returned, of one parameter and with dependsOnOwnProps set to
\* true, with two
C26_Witness ==
    /\ Len(proxyHistory.invoked) >= 2
    /\ proxy.raw.length = 1 /\ proxy.raw.flag = "unset"
    /\ proxyHistory.invoked[1].nargs = 1
    /\ proxy.sub.length = 1 /\ proxy.sub.flag = "true"
    /\ proxyHistory.invoked[2].fn = "sub" /\ proxyHistory.invoked[2].nargs = 2

\* the first invocation of the user function returned a function
FirstReturnedFunction ==
    /\ proxyHistory.invoked # <<>>
    /\ proxyHistory.invoked[1].result.fnc

\* C27: when the first invocation of the user function returned a function,
\* the proxy holds that function as its mapToProps and its dependsOnOwnProps
\* is what the rule says of that function; the first call of the proxy has
\* invoked it and returned its result; every later call of the proxy has
\* invoked it once, handing it the arguments that the rule gives, and has not
\* invoked the user function.
C27_FactoryReplacesStage ==
    FirstReturnedFunction =>
        LET h == proxyHistory
        IN  /\ proxy.mapToProps = "sub"
            /\ proxy.sub = h.invoked[1].result
            /\ proxy.dependsOnOwnProps = DependsByRule(proxy.sub)
            /\ Len(h.invoked) = h.calls + 1
            /\ \A k \in 2..Len(h.invoked) :
                  /\ h.invoked[k].fn = "sub"
                  /\ h.invoked[k].nargs = IF DependsByRule(proxy.sub) THEN 2 ELSE 1
            /\ h.first = h.invoked[2].result
            /\ h.returned = h.invoked[Len(h.invoked)].result

\* a user function of two parameters returned a function of one parameter,
\* and a second call of the proxy has invoked the returned function with
\* one argument
C27_Witness ==
    /\ FirstReturnedFunction
    /\ proxyHistory.calls >= 2
    /\ proxy.raw.length = 2 /\ proxy.raw.flag = "unset"
    /\ proxy.sub.length = 1 /\ proxy.sub.flag = "unset"
    /\ proxyHistory.invoked[1].nargs = 2
    /\ proxyHistory.invoked[3].fn = "sub" /\ proxyHistory.invoked[3].nargs = 1

\* the invocations of the user function itself that returned a value which
\* is not a plain object and not a function
RawNonPlain ==
    {k \in 1..Len(proxyHistory.invoked) :
        /\ proxyHistory.invoked[k].fn = "raw"
        /\ ~proxyHistory.invoked[k].result.fnc
        /\ ~proxyHistory.invoked[k].result.plain}

\* C28 as stated: every result of the user function itself is checked, and
\* no result of a function that it returned is, so the warnings recorded are
\* as many as the non-plain results of the user function itself.
C28_EveryRawResultChecked ==
    warnings = Cardinality(RawNonPlain)

\* C28, amended: the proxy checks one value, the one that its first call
\* returns: the result of the user function or, when that result is a
\* function, the result of the returned function.  In a build whose NODE_ENV
\* is not 'production' one warning is recorded when that value is not a plain
\* object; otherwise none is, and no later call records one.  Every call
\* returns the result of the function it invoked last.
C28_FirstResultChecked ==
    LET h == proxyHistory
    IN  /\ warnings = IF h.calls >= 1 /\ ~h.first.plain /\ ~proxy.production
                      THEN 1 ELSE 0
        /\ h.calls >= 1 =>
               /\ h.first = IF FirstReturnedFunction
                            THEN h.invoked[2].result ELSE h.invoked[1].result
               /\ h.returned = h.invoked[Len(h.invoked)].result

\* outside production, the user function returned a plain object to the
\* first call and a non-plain one to a later call: no warning
C28_Witness ==
    /\ ~proxy.production /\ proxyHistory.calls >= 2
    /\ ~FirstReturnedFunction
    /\ proxyHistory.first.plain
    /\ RawNonPlain # {}
    /\ warnings = 0

\* ------------------------------------------------- Properties of debounce
\* func has been invoked by the debounced function
FuncInvoked == debounceHistory.invoked.time # Undefined

MountedNow(c) == inst[c].life = "constructed" /\ inst'[c].life = "mounted"

\* the host has a forced update of instance c to carry out
ForcedUpdate(stk, c) == \E k \in 1..Len(stk) : stk[k].kind = "force" /\ stk[k].c = c

\* C31: componentDidMount subscribes the container, then runs its selector
\* against the current state of the store and forces an update of the host
\* exactly when the result differs from the one computed at construction
\* (or the selector throws); the forced update renders the new result
C31_MountRerunsSelector ==
    [][/\ \A c \in ContainerNames :
          MountedNow(c) =>
             /\ node[c].state = "unsubscribed" /\ node'[c].state = "subscribed"
             /\ IF Throws(inst[c].kind, currentState)
                THEN inst'[c].error /\ ForcedUpdate(hostStack', c)
                ELSE /\ ~inst'[c].error
                     /\ inst'[c].props
                           = SourceSelector(inst[c].kind, currentState, inst[c].own)
                     /\ ForcedUpdate(hostStack', c) = (inst'[c].props # inst[c].props)
             /\ ForcedUpdate(hostStack', c) = inst'[c].shouldComponentUpdate
       /\ \A c \in ContainerNames :
             ForcedUpdate(hostStack, c) /\ ~ForcedUpdate(hostStack', c) /\ ~inst[c].error =>
                inst'[c].rendered = inst[c].props /\ ~inst'[c].shouldComponentUpdate]_vars

\* the state changed between the construction and the mount of a container
\* that derives its props from the state: the mount found the new result
\* and forced the update
C31_Witness ==
    \E c \in ContainerNames :
       /\ inst[c].life = "mounted" /\ inst[c].kind = "all"
       /\ node[c].state = "subscribed"
       /\ ForcedUpdate(hostStack, c)
       /\ inst[c].props = currentState
       /\ inst[c].rendered # currentState

\* componentWillUpdate of the mounted instance c found another version in
\* this step
DetectsReload(c) ==
    inst[c].life = "mounted" /\ HotReloading(inst[c]) /\ ~HotReloading(inst'[c])

\* the mounted containers whose handler is attached to the node of c
Attached(c) ==
    {k \in ContainerNames :
        inst[k].life = "mounted" /\ node[k].state = "subscribed" /\ node[k].at = c}

\* C32: when the update of a mounted container finds that its version is
\* not that of the connect call, the container has a selector made by the
\* new call and run against the current state, its old handler is detached
\* and a new node is subscribed at the same place, and the listeners of the
\* old node are those of the new one, in their order; at all times the
\* handler of every mounted container attached to the node of a mounted one
\* is among the listeners that the node notifies
C32_ListenersCarriedOver ==
    /\ [][\A c \in ContainerNames :
            DetectsReload(c) =>
               /\ inst'[c].version = inst[c].connect
               /\ inst'[c].kind = inst[c].reloadKind
               /\ inst'[c].props
                     = SourceSelector(inst[c].reloadKind, currentState, inst[c].own)
               /\ node'[c].state = "subscribed"
               /\ node'[c].at = node[c].at
               /\ node[c].at = "store" =>
                     /\ node'[c].handle # node[c].handle
                     /\ ~subs'[node[c].handle].isSubscribed
                     /\ subs'[node'[c].handle] = [listener |-> c, isSubscribed |-> TRUE]
               /\ node[c].at # "store" => c \in Elems(node'[node[c].at].listeners)
               /\ node'[c].listeners = node[c].listeners
               /\ Attached(c) \subseteq Elems(node'[c].listeners)]_vars
    /\ [](\A c \in ContainerNames :
            inst[c].life = "mounted" => Attached(c) \subseteq Elems(node[c].listeners))

\* P was hot reloaded and has swapped its node, C was not reloaded: its
\* handler is a listener carried over to the new node of P, and that node has
\* notified it
C32_Witness ==
    /\ inst["P"].life = "mounted" /\ inst["C"].life = "mounted"
    /\ inst["P"].connect = 1 /\ inst["P"].version = 1
    /\ inst["C"].connect = 0
    /\ node["P"].carried = 1 /\ node["P"].listeners = <<"C">>
    /\ \E j \in 1..Len(log) :
          log[j].ev = "handler" /\ log[j].c = "C" /\ log[j].from = "P"

\* ------------------------------------- Properties of the enhanced store
\* the calls of store.dispatch in flight that carry the private action
InitDispatches == {k \in 1..Len(stack) : stack[k].action = InitAction}

\* C33: the initialization action that createStore and replaceReducer
\* dispatch reaches the dispatch of the base store and no function of the
\* middleware chain: while it is dispatched no call of the chain is in
\* flight, and no call of the chain carries it; an action that the caller
\* hands to the dispatch of the enhanced store is handed to the function of
\* the first middleware
C33_InitBypassesMiddleware ==
    /\ InitDispatches # {} => chainStack = <<>>
    /\ \A k \in 1..Len(chainStack) : chainStack[k].action # InitAction
    /\ chainStack # <<>> /\ chainStack[1].via = "caller" /\ middlewares # <<>> =>
          /\ chainStack[1].fn # StoreDispatch
          /\ Middleware(chainStack[1].fn) = [at |-> 1, mw |-> middlewares[1]]
          /\ chainStack[1].action = outerCall.action

\* the enhanced store of two middlewares has dispatched an action of its
\* caller, and the initialization action of a replaceReducer call is now at
\* the reducer
C33_Witness ==
    /\ phase = "composed" /\ Len(middlewares) = 2
    /\ outerCall.made /\ outerCall.reached
    /\ replaced = 1
    /\ InitDispatches # {} /\ InReducer
    /\ chainStack = <<>>

\* ------------------------------ Properties of the object the combination returns
\* the keys of the reducer map whose entry is a function
FunctionKeys ==
    {givenReducers[i].key : i \in {j \in 1..Len(givenReducers) :
                                     givenReducers[j].fn # NotAFunction}}

\* the keys that object o has
KeysOf(o) == {k \in Keys : o[k] # Undefined}

\* C34: a call of the combination that returns has invoked the entries of
\* the reducer map that are functions, each once and in the order of the
\* map, and no other entry; when it returns another object than its input,
\* that object has exactly the keys whose entry in the map is a function; a
\* key of the input that has no reducer is in the returned object only when
\* that object is the input itself
C34_KeysOfAssembledObject ==
    Returned =>
        /\ lastCall.invoked =
              [i \in 1..Len(finalReducers) |-> finalReducers[i].key]
        /\ {lastCall.invoked[i] : i \in 1..Len(lastCall.invoked)} = FunctionKeys
        /\ Len(lastCall.invoked) = Cardinality(FunctionKeys)
        /\ lastCall.result # lastCall.state =>
              KeysOf(heap[lastCall.result]) = FunctionKeys
        /\ (KeysOf(LastInput) \cap KeysOf(heap[lastCall.result])) \ FunctionKeys # {} =>
              lastCall.result = lastCall.state

\* the input object has the key x, for which the map has no entry, and a
\* key whose entry is not a function; the call returned a new object
C34_Witness ==
    /\ Returned /\ lastCall.state # Undefined
    /\ lastCall.result # lastCall.state
    /\ LastInput["x"] # Undefined
    /\ \E i \in 1..Len(givenReducers) :
          givenReducers[i].fn = NotAFunction /\ LastInput[givenReducers[i].key] # Undefined
    /\ FunctionKeys # {}
    /\ KeysOf(heap[lastCall.result]) = FunctionKeys

====
